---- MODULE Spec2Model ----
(***************************************************************************)
(* Closure-graph reducer of lambo (src/src/ast): the node/edge graph, the  *)
(* parser that builds it, the weak-head reducer `evaluate`, the pre-pass   *)
(* garbage collector, and the term-tree reference reducer of main.rs.      *)
(***************************************************************************)
EXTENDS Integers, Sequences, FiniteSets, TLC

\* ---------------------------------------------------------------- bounds
\* Largest number of syntax nodes of an exhaustively enumerated program.
MaxSize == 5
\* Largest number of nested/iterated reducer calls before a run is cut off.
MaxFuel == 50
\* Largest number of evaluate(root) calls made on one graph.
MaxCalls == 2
MaxDepth == 8

\* ------------------------------------------------------------ node weights
Weight(kind, name, num, tag, uid, arity) ==
    [kind |-> kind, name |-> name, num |-> num, tag |-> tag, uid |-> uid, arity |-> arity]

Vacant == Weight("Vacant", "", 0, "", 0, 0)
Lambda(name) == Weight("Lambda", name, 0, "", 0, 0)
Closure(name) == Weight("Closure", name, 0, "", 0, 0)
Application == Weight("Application", "", 0, "", 0, 0)
BoundVariable == Weight("Bound", "", 0, "", 0, 0)
FreeVariable(name) == Weight("Free", name, 0, "", 0, 0)
PrimitiveNumber(n) == Weight("Primitive", "", n, "", 0, 0)
Data(tag) == Weight("Data", "", 0, tag, 0, 0)
CustomData(uid, arity) == Weight("Data", "", 0, "Custom", uid, arity)

\* ------------------------------------------------------------- edge labels
Body == [l |-> "Body", i |-> 0]
Parameter == [l |-> "Parameter", i |-> 0]
Function == [l |-> "Function", i |-> 0]
Binder(i) == [l |-> "Binder", i |-> i]
ConstructorArgument(i) == [l |-> "ConstructorArgument", i |-> i]

IsBinder(lbl) == lbl.l = "Binder"

\* ------------------------------------------------------------ sequences
Reverse(s) == [i \in 1..Len(s) |-> s[Len(s) + 1 - i]]

RemoveAt(s, i) == [j \in 1..(Len(s) - 1) |-> IF j < i THEN s[j] ELSE s[j + 1]]

\* The largest index of the set I, 0 when it is empty.
LastIndex(I) == IF I = {} THEN 0 ELSE CHOOSE i \in I : \A j \in I : j <= i

\* ------------------------------------------------------------- the graph
\* The AST value threaded through every operation.  nodes/edges/free model
\* petgraph's StableGraph: a slot is Vacant after remove_node and the most
\* recently freed slot is reused first; edges are kept in insertion order
\* and petgraph iterates them newest first.
\* saturates tells whether the parser fronts a built-in tag with its lambda
\* chain and knows the I/O tags; stdin is the line the console yields and
\* stdout what has been printed.
\* status/err/ret/dangling carry the Result of the operation just run;
\* fuel counts the remaining reducer calls.  log, touched, forced, born and
\* clock are history only: log is the sequence of rewrite events of the
\* running call, touched the nodes evaluate has been called on, forced the
\* closures whose Parameter a shared dereference has reduced, born/clock the
\* add_node count at which each slot was last filled.
NoErr == [kind |-> "", node |-> 0, edge |-> Body, msg |-> ""]

NewAST ==
    [nodes |-> <<>>, edges |-> <<>>, free |-> <<>>, root |-> 0, uid |-> 0,
     status |-> "ok", err |-> NoErr, ret |-> 0, dangling |-> FALSE, prim |-> Vacant,
     saturates |-> FALSE, stdin |-> "", stdout |-> <<>>,
     fuel |-> MaxFuel, log |-> <<>>, touched |-> {}, forced |-> {}, born |-> <<>>, clock |-> 0]

Ok(a) == a.status = "ok"

Panic(a, msg) == IF Ok(a) THEN [a EXCEPT !.status = "panic", !.err = [NoErr EXCEPT !.kind = "Panic", !.msg = msg]] ELSE a

Fail(a, kind, node, edge, msg) ==
    IF Ok(a) THEN [a EXCEPT !.status = "err", !.err = [kind |-> kind, node |-> node, edge |-> edge, msg |-> msg]] ELSE a

EdgeNotFound(a, node, edge) == Fail(a, "EdgeNotFound", node, edge, "")

Custom(a, node, msg) == Fail(a, "Custom", node, Body, msg)

node_weight(a, n) == IF n \in 1..Len(a.nodes) THEN a.nodes[n] ELSE Vacant

contains_node(a, n) == node_weight(a, n).kind # "Vacant"

add_node(a, w) ==
    IF a.free # <<>>
    THEN LET n == Head(a.free)
         IN [a EXCEPT !.nodes[n] = w, !.free = Tail(a.free), !.ret = n,
                      !.touched = @ \ {n}, !.forced = @ \ {n},
                      !.born[n] = a.clock + 1, !.clock = @ + 1]
    ELSE [a EXCEPT !.nodes = Append(@, w), !.ret = Len(a.nodes) + 1,
                   !.born = Append(@, a.clock + 1), !.clock = @ + 1]

add_edge(a, s, d, lbl) ==
    IF a.status # "ok" THEN a
    ELSE IF ~contains_node(a, s) \/ ~contains_node(a, d)
    THEN Panic(a, "add_edge: node index is not a node in the graph")
    ELSE [a EXCEPT !.edges = Append(@, [src |-> s, dst |-> d, lbl |-> lbl])]

remove_edge_at(a, i) == IF i = 0 THEN a ELSE [a EXCEPT !.edges = RemoveAt(@, i)]

remove_node(a, n) ==
    IF a.status # "ok" \/ ~contains_node(a, n) THEN a
    ELSE [a EXCEPT !.nodes[n] = Vacant,
                   !.edges = SelectSeq(@, LAMBDA e : e.src # n /\ e.dst # n),
                   !.free = <<n>> \o @,
                   !.touched = @ \ {n}, !.forced = @ \ {n}]

\* Outgoing / incoming edges in petgraph's iteration order (newest first).
edges_out(a, n) == Reverse(SelectSeq(a.edges, LAMBDA e : e.src = n))

edges_in(a, n) == Reverse(SelectSeq(a.edges, LAMBDA e : e.dst = n))

get_edge_ref(a, n, lbl) ==
    LastIndex({i \in 1..Len(a.edges) : a.edges[i].src = n /\ a.edges[i].lbl = lbl})

\* follow_edge: ret is the target, or the operation fails with EdgeNotFound.
follow_edge(a, n, lbl) ==
    IF a.status # "ok" THEN a
    ELSE LET i == get_edge_ref(a, n, lbl)
         IN IF i = 0 THEN EdgeNotFound(a, n, lbl) ELSE [a EXCEPT !.ret = a.edges[i].dst]

redirect_edge(a, i, node) ==
    IF a.status # "ok" THEN a
    ELSE IF i = 0 THEN Panic(a, "redirect_edge: edge_endpoints is None")
    ELSE LET e == a.edges[i]
         IN add_edge(remove_edge_at(a, i), e.src, node, e.lbl)

\* migrate_node: every incoming non-Binder edge of `from` is removed and
\* re-added with target `to`, newest first; the root follows (moves_root).
MigrateNode(a, from, to, moves_root) ==
    LET Incoming(e) == e.dst = from /\ ~IsBinder(e.lbl)
        Kept(e) == ~Incoming(e)
        Moved(es) == [i \in 1..Len(es) |-> [es[i] EXCEPT !.dst = to]]
        Rooted(b) == IF Ok(b) /\ b.root = from /\ moves_root THEN [b EXCEPT !.root = to] ELSE b
    IN IF a.status # "ok" THEN a
       ELSE IF \A i \in 1..Len(a.edges) : Kept(a.edges[i]) THEN Rooted(a)
       ELSE IF ~contains_node(a, to)
       THEN Panic(a, "add_edge: node index is not a node in the graph")
       ELSE Rooted([a EXCEPT !.edges = SelectSeq(@, Kept)
                                         \o Moved(Reverse(SelectSeq(a.edges, Incoming)))])

\* migrate_node without `if self.root == from { self.root = to }`.
migrate_node_keeps_root(a, from, to) == MigrateNode(a, from, to, FALSE)

migrate_node(a, from, to) == MigrateNode(a, from, to, TRUE)

binder_references(a, n) ==
    LET es == SelectSeq(edges_in(a, n), LAMBDA e : IsBinder(e.lbl))
    IN [i \in 1..Len(es) |-> es[i].src]

\* add_debug_frame_with_annotation: a Debug node is added, linked to `id`
\* and removed again; add_debug_frame records nothing (`if false`).
AddDebugFrame(a, id, removes) ==
    IF ~Ok(a) THEN a
    ELSE IF ~contains_node(a, id) THEN Panic(a, "add_edge: node index is not a node in the graph")
    ELSE IF ~removes
    THEN LET d == add_node(a, Weight("Debug", "", 0, "", 0, 0))
         IN [add_edge(d, d.ret, id, [l |-> "Debug", i |-> 0]) EXCEPT !.ret = a.ret]
    ELSE IF a.free # <<>> THEN a
    ELSE [a EXCEPT !.nodes = Append(@, Vacant), !.free = <<Len(a.nodes) + 1>>,
                   !.born = Append(@, 0)]

\* add_debug_frame_with_annotation without `self.graph.remove_node(node)`.
add_debug_frame_keeps_node(a, id) == AddDebugFrame(a, id, FALSE)

add_debug_frame_with_annotation(a, id) == AddDebugFrame(a, id, TRUE)

\* ------------------------------------------------------------------ parser
Tok(t, s) == [t |-> t, s |-> s]

Symbol(s) == Tok("Symbol", s)

\* TAGS / ConstructorTag::try_from: the symbols that name a built-in tag.
TAGS ==
    <<[k |-> "#constructor", tag |-> "CreateConstructor"],
      [k |-> "#match", tag |-> "Match"],
      [k |-> "=num", tag |-> "Eq"],
      [k |-> "+", tag |-> "Add"],
      [k |-> "-", tag |-> "Sub"],
      [k |-> "*", tag |-> "Mul"],
      [k |-> "/", tag |-> "Div"],
      [k |-> "^", tag |-> "Pow"]>>

ConstructorTag_try_from(name) ==
    LET I == {i \in 1..Len(TAGS) : TAGS[i].k = name}
    IN IF I = {} THEN "" ELSE TAGS[CHOOSE i \in I : \A j \in I : i <= j].tag

\* The I/O tags of builtins/io.rs under the names of their messages.
IOTAGS ==
    <<[k |-> "#io_readline", tag |-> "ReadLine"],
      [k |-> "#io_print", tag |-> "Print"],
      [k |-> "#io_flatmap", tag |-> "Flatmap"]>>

IOTag_try_from(name) ==
    LET I == {i \in 1..Len(IOTAGS) : IOTAGS[i].k = name}
    IN IF I = {} THEN "" ELSE IOTAGS[CHOOSE i \in I : \A j \in I : i <= j].tag

\* ConstructorTag::argument_names
argument_names(w) ==
    CASE w.tag \in {"Add", "Sub", "Mul", "Div", "Pow", "Eq"} -> <<"what", "to">>
      [] w.tag = "CreateConstructor" -> <<"arity">>
      [] w.tag = "Match" -> <<"constructor", "transform", "fallback", "value">>
      [] w.tag = "ReadLine" -> <<>>
      [] w.tag = "Print" -> <<"bytes">>
      [] w.tag = "Flatmap" -> <<"transform", "io">>
      [] OTHER -> [i \in 1..w.arity |-> "param"]

\* ConstructorTag::arity
ConstructorTag_arity(w) == Len(argument_names(w))

\* The saturated form of a built-in tag: the Data node under a chain of one
\* Lambda per argument, with a Binder(i) edge from the Data node to the
\* i-th Lambda.  ret is the head of the chain.
RECURSIVE SaturateLambdas(_, _, _)
SaturateLambdas(a, names, chain) ==
    IF names = <<>> THEN [a |-> a, chain |-> chain]
    ELSE LET Added(l) == SaturateLambdas(l, Tail(names), Append(chain, l.ret))
         IN Added(add_node(a, Lambda(Head(names))))

RECURSIVE SaturateBinders(_, _, _, _)
SaturateBinders(a, data, chain, i) ==
    IF i > Len(chain) THEN a
    ELSE SaturateBinders(add_edge(a, data, chain[i], Binder(i - 1)), data, chain, i + 1)

RECURSIVE SaturateBodies(_, _)
SaturateBodies(a, chain) ==
    IF Len(chain) < 2 THEN a
    ELSE SaturateBodies(add_edge(a, chain[1], chain[2], Body), Tail(chain))

saturate(a, w) ==
    LET Linked(data, ls) ==
            [SaturateBinders(SaturateBodies(ls.a, Append(ls.chain, data)), data, ls.chain, 1)
                EXCEPT !.ret = ls.chain[1]]
        Fronted(d) ==
            IF argument_names(w) = <<>> THEN d
            ELSE Linked(d.ret, SaturateLambdas(d, argument_names(w), <<>>))
    IN Fronted(add_node(a, w))

\* name.parse::<usize>() on the numerals the inputs use; -1 stands for Err.
ParseUsize(name) ==
    CASE name = "0" -> 0 [] name = "1" -> 1 [] name = "2" -> 2 [] name = "3" -> 3
      [] name = "5" -> 5 [] name = "7" -> 7 [] name = "8" -> 8 [] name = "10" -> 10
      [] name = "20" -> 20 [] name = "42" -> 42 [] name = "99" -> 99
      [] OTHER -> -1

binding_power(token) == IF token.t = "Pipe" THEN <<10, 11>> ELSE <<100, 101>>

\* ResolveBinder with `find` for `rfind`: the outermost binder of that name.
ResolveBinder_outermost(a, binder_ctx, name) ==
    LET I == {i \in 1..Len(binder_ctx) : node_weight(a, binder_ctx[i]).name = name}
    IN IF I = {} THEN 0 ELSE binder_ctx[CHOOSE i \in I : \A j \in I : i <= j]


\* binder_ctx.iter().rfind(..): the innermost binder with that argument name.
ResolveBinder(a, binder_ctx, name) ==
    LET I == {i \in 1..Len(binder_ctx) : node_weight(a, binder_ctx[i]).name = name}
    IN IF I = {} THEN 0 ELSE binder_ctx[CHOOSE i \in I : \A j \in I : j <= i]

ParseSymbol(a, binder_ctx, name) ==
    LET Variable(b, binder_id) == add_edge(b, b.ret, binder_id, Binder(0))
        Tagged(tag) == IF a.saturates THEN saturate(a, Data(tag)) ELSE add_node(a, Data(tag))
        Resolved(binder_id) ==
            IF binder_id # 0 THEN Variable(add_node(a, BoundVariable), binder_id)
            ELSE IF a.saturates /\ IOTag_try_from(name) # "" THEN Tagged(IOTag_try_from(name))
            ELSE IF ConstructorTag_try_from(name) # "" THEN Tagged(ConstructorTag_try_from(name))
            ELSE IF ParseUsize(name) >= 0 THEN add_node(a, PrimitiveNumber(ParseUsize(name)))
            ELSE add_node(a, FreeVariable(name))
    IN IF \E i \in 1..Len(binder_ctx) : node_weight(a, binder_ctx[i]).kind \notin {"Lambda", "Closure"}
       THEN Panic(a, "lambda_ctx elements can only point to lambda/closure nodes")
       ELSE Resolved(ResolveBinder(a, binder_ctx, name))

\* The parser works on p = [a |-> AST, toks |-> remaining tokens].
PPanic(p, msg) == [p EXCEPT !.a = Panic(@, msg)]

\* `while let Some(Token::Symbol(_)) = tokens.peek()`: one Lambda per name.
RECURSIVE ParseLambdaNames(_, _, _)
ParseLambdaNames(p, binder_ctx, lambdas_chain) ==
    LET Named(b, toks) ==
            ParseLambdaNames([a |-> b, toks |-> toks], Append(binder_ctx, b.ret),
                             Append(lambdas_chain, b.ret))
        Name(variable_name, t1) ==
            IF t1 # <<>> /\ Head(t1).t = "Colon" /\ (Len(t1) < 2 \/ t1[2].t # "Symbol")
            THEN [a |-> Panic(p.a, "Expected type"), toks |-> t1, ctx |-> binder_ctx,
                  chain |-> lambdas_chain]
            ELSE Named(add_node(p.a, Lambda(variable_name)),
                       IF t1 # <<>> /\ Head(t1).t = "Colon" THEN Tail(Tail(t1)) ELSE t1)
    IN IF p.toks # <<>> /\ Head(p.toks).t = "Symbol"
       THEN Name(Head(p.toks).s, Tail(p.toks))
       ELSE [a |-> p.a, toks |-> p.toks, ctx |-> binder_ctx, chain |-> lambdas_chain]

RECURSIVE AddBodyEdges(_, _)
AddBodyEdges(a, chain) ==
    IF Len(chain) < 2 THEN a
    ELSE AddBodyEdges(add_edge(a, chain[1], chain[2], Body), Tail(chain))

RECURSIVE parse_expr(_, _, _)
RECURSIVE ParseLoop(_, _, _)

ParseLhs(p, binder_ctx) ==
    LET token == Head(p.toks)
        rest == Tail(p.toks)
        \* Token::Lambda
        Abstraction(n, body) ==
            IF body.a.status # "ok" THEN body
            ELSE [a |-> [AddBodyEdges(body.a, Append(n.chain, body.a.ret)) EXCEPT !.ret = n.chain[1]],
                  toks |-> body.toks]
        Lambdas(n) ==
            CASE n.a.status # "ok" -> [a |-> n.a, toks |-> n.toks]
              [] n.toks = <<>> \/ Head(n.toks).t # "Dot" ->
                   [a |-> Panic(n.a, "Expected DOT"), toks |-> n.toks]
              [] n.chain = <<>> ->
                   [a |-> Panic(n.a, "At least one lambda node must have been created!"),
                    toks |-> n.toks]
              [] OTHER -> Abstraction(n, parse_expr([a |-> n.a, toks |-> Tail(n.toks)], 0, n.ctx))
        \* Token::OpenParen
        Parenthesised(result) ==
            CASE result.a.status # "ok" -> result
              [] result.toks = <<>> \/ Head(result.toks).t # "CloseParen" ->
                   PPanic(result, "Expected CloseParen")
              [] OTHER -> [a |-> result.a, toks |-> Tail(result.toks)]
        \* Token::With
        Enclosed(value, closure_node, body) ==
            IF body.a.status # "ok" THEN body
            ELSE [a |-> [add_edge(add_edge(body.a, closure_node, body.a.ret, Body),
                                  closure_node, value.a.ret, Parameter)
                            EXCEPT !.ret = closure_node],
                  toks |-> body.toks]
        Bound(variable_name, value) ==
            CASE value.a.status # "ok" -> value
              [] value.toks = <<>> \/ Head(value.toks).t # "In" -> PPanic(value, "Expected In")
              [] OTHER ->
                   Enclosed(value, add_node(value.a, Closure(variable_name)).ret,
                            parse_expr([a |-> add_node(value.a, Closure(variable_name)),
                                        toks |-> Tail(value.toks)],
                                       0,
                                       Append(binder_ctx,
                                              add_node(value.a, Closure(variable_name)).ret)))
    IN CASE p.toks = <<>> -> PPanic(p, "tokens.next().unwrap()")
         [] token.t = "Symbol" ->
              [a |-> ParseSymbol(p.a, binder_ctx, token.s), toks |-> rest]
         [] token.t = "Lambda" ->
              Lambdas(ParseLambdaNames([a |-> p.a, toks |-> rest], binder_ctx, <<>>))
         [] token.t = "OpenParen" ->
              Parenthesised(parse_expr([a |-> p.a, toks |-> rest], 0, binder_ctx))
         [] token.t = "With" /\ (rest = <<>> \/ Head(rest).t # "Symbol") ->
              PPanic(p, "Expected variable name")
         [] token.t = "With" ->
              Bound(Head(rest).s, parse_expr([a |-> p.a, toks |-> Tail(rest)], 0, binder_ctx))
         [] token.t = "Quoted" ->
              [a |-> add_node(p.a, Weight("Bytes", token.s, 0, "", 0, 0)), toks |-> rest]
         [] OTHER -> PPanic(p, "Invalid syntax: unexpected token")

\* The `loop` of parse_expr; the graph's ret carries `lhs`.
ParseLoop(p, min_binding_power, binder_ctx) ==
    LET lhs == p.a.ret
        next_token == Head(p.toks)
        Applied(app, rhs) ==
            IF next_token.t = "Pipe"
            THEN add_edge(add_edge(app, app.ret, rhs.a.ret, Function), app.ret, lhs, Parameter)
            ELSE add_edge(add_edge(app, app.ret, rhs.a.ret, Parameter), app.ret, lhs, Function)
        Rhs(rhs) ==
            IF rhs.a.status # "ok" THEN rhs
            ELSE ParseLoop([a |-> Applied(add_node(rhs.a, Application), rhs), toks |-> rhs.toks],
                           min_binding_power, binder_ctx)
    IN CASE p.a.status # "ok" -> p
         [] p.toks = <<>> -> PPanic(p, "tokens.peek().unwrap()")
         [] next_token.t \in {"Eof", "CloseParen", "In"}
            \/ binding_power(next_token)[1] < min_binding_power ->
              [a |-> [p.a EXCEPT !.ret = lhs], toks |-> p.toks]
         [] OTHER ->
              Rhs(parse_expr([a |-> p.a,
                              toks |-> IF next_token.t \in {"Pipe", "Colon"}
                                       THEN Tail(p.toks) ELSE p.toks],
                             binding_power(next_token)[2], binder_ctx))

parse_expr(p, min_binding_power, binder_ctx) ==
    ParseLoop(ParseLhs(p, binder_ctx), min_binding_power, binder_ctx)

\* AST::from_str: a new graph whose root is the parsed expression.
Parse(a, tokens) ==
    LET Rooted(p) == IF Ok(p.a) THEN [p.a EXCEPT !.root = p.a.ret] ELSE p.a
    IN Rooted(parse_expr([a |-> a, toks |-> tokens], 0, <<>>))

from_str(tokens) == Parse(NewAST, tokens)

\* ------------------------------------------------------------------ inputs
\* Programs are syntax trees; Tokens is what the lexer yields for their text.
Nil == [k |-> "nil"]
Var(n) == [k |-> "var", n |-> n, a |-> Nil, b |-> Nil]
Lam(n, body) == [k |-> "lam", n |-> n, a |-> body, b |-> Nil]
App(f, x) == [k |-> "app", n |-> "", a |-> f, b |-> x]
With(n, v, body) == [k |-> "with", n |-> n, a |-> v, b |-> body]

Str(s) == [k |-> "str", n |-> s, a |-> Nil, b |-> Nil]

Names == {"x", "y"}
Atoms == Names \cup {"1", "+"}

\* The programs of s syntax nodes over the given atoms and binder names.
RECURSIVE TermsOver(_, _, _)
TermsOver(atoms, names, s) ==
    IF s = 1 THEN {Var(n) : n \in atoms}
    ELSE {Lam(n, b) : n \in names, b \in TermsOver(atoms, names, s - 1)}
         \cup UNION {{App(f, x) : f \in TermsOver(atoms, names, i),
                                  x \in TermsOver(atoms, names, s - 1 - i)} : i \in 1..(s - 2)}
         \cup UNION {{With(n, v, b) : n \in names, v \in TermsOver(atoms, names, i),
                                      b \in TermsOver(atoms, names, s - 1 - i)} : i \in 1..(s - 2)}

\* The same programs as a family of disjoint sets: one set per top
\* constructor, binder name and split of the remaining nodes.
TermParts(atoms, names, s) ==
    IF s = 1 THEN {TermsOver(atoms, names, 1)}
    ELSE {{Lam(n, b) : b \in TermsOver(atoms, names, s - 1)} : n \in names}
         \cup {{App(f, x) : f \in TermsOver(atoms, names, i),
                            x \in TermsOver(atoms, names, s - 1 - i)} : i \in 1..(s - 2)}
         \cup UNION {{{With(n, v, b) : v \in TermsOver(atoms, names, i),
                                      b \in TermsOver(atoms, names, s - 1 - i)} : n \in names}
                        : i \in 1..(s - 2)}

RECURSIVE Tokens(_)
Tokens(t) ==
    LET Paren(u) == <<Tok("OpenParen", "")>> \o Tokens(u) \o <<Tok("CloseParen", "")>>
    IN CASE t.k = "var" -> <<Symbol(t.n)>>
         [] t.k = "str" -> <<Tok("Quoted", t.n)>>
         [] t.k = "lam" -> <<Tok("Lambda", ""), Symbol(t.n), Tok("Dot", "")>> \o Tokens(t.a)
         [] t.k = "app" -> (IF t.a.k \in {"var", "str", "app"} THEN Tokens(t.a) ELSE Paren(t.a))
                           \o (IF t.b.k \in {"var", "str"} THEN Tokens(t.b) ELSE Paren(t.b))
         [] t.k = "with" -> <<Tok("With", ""), Symbol(t.n)>> \o Tokens(t.a)
                            \o <<Tok("In", "")>> \o Tokens(t.b)

lexer(t) == Tokens(t) \o <<Tok("Eof", "")>>

\* ------------------------------------------------- graph vocabulary, history
Nodes(a) == {n \in 1..Len(a.nodes) : contains_node(a, n)}

EdgeSet(a) == {a.edges[i] : i \in 1..Len(a.edges)}

\* The edges (by index, parallel edges apart) that own n: its incoming
\* non-Binder edges.
Owners(a, n) == {i \in 1..Len(a.edges) : a.edges[i].dst = n /\ ~IsBinder(a.edges[i].lbl)}

RECURSIVE ReachFrom(_, _, _)
ReachFrom(a, frontier, seen) ==
    IF frontier = {} THEN seen
    ELSE LET next == {e.dst : e \in {x \in EdgeSet(a) : x.src \in frontier}} \ seen
         IN ReachFrom(a, next, seen \cup next)

\* The nodes reachable from the root.
Reachable(a) == IF contains_node(a, a.root) THEN ReachFrom(a, {a.root}, {a.root}) ELSE {}

\* The nodes owned by n: reachable through non-Binder edges.
RECURSIVE OwnedFrom(_, _, _)
OwnedFrom(a, frontier, seen) ==
    IF frontier = {} THEN seen
    ELSE LET next == {e.dst : e \in {x \in EdgeSet(a) : x.src \in frontier /\ ~IsBinder(x.lbl)}} \ seen
         IN OwnedFrom(a, next, seen \cup next)

Subtree(a, n) == OwnedFrom(a, {n}, {n})

\* The node under the closure chain that starts at n.
RECURSIVE UnderClosures(_, _, _)
UnderClosures(a, n, k) ==
    IF k = 0 \/ node_weight(a, n).kind # "Closure" \/ get_edge_ref(a, n, Body) = 0 THEN n
    ELSE UnderClosures(a, a.edges[get_edge_ref(a, n, Body)].dst, k - 1)

\* The tags ConstructorTag::evaluate returns unchanged.
InertTags == {"Custom", "ReadLine", "Print"}

\* Weak-head normal form as evaluate leaves it: a primitive, a free variable,
\* a lambda, a Data node with an inert tag, or an application whose head is
\* none of Lambda, Closure or a reducible node.
RECURSIVE WHNF(_, _, _)
WHNF(a, n, k) ==
    LET w == node_weight(a, n)
        f == get_edge_ref(a, n, Function)
    IN \/ w.kind \in {"Primitive", "Bytes", "Free", "Lambda"}
       \/ w.kind = "Data" /\ w.tag \in InertTags
       \/ /\ w.kind = "Application" /\ f # 0 /\ k > 0
          /\ node_weight(a, a.edges[f].dst).kind # "Lambda"
          /\ WHNF(a, a.edges[f].dst, k - 1)

\* A rewrite event of the history.  ev names the rewrite; n is the node it
\* was applied to, c the closure or lambda involved, q and r the nodes it
\* produced; the remaining fields are observations made when it happened.
NoEvent ==
    [ev |-> "", n |-> 0, c |-> 0, q |-> 0, r |-> 0, refs |-> 0, dangling |-> FALSE,
     forced |-> FALSE, work |-> 0, added |-> 0, ok |-> TRUE, owner |-> TRUE, whnf |-> TRUE,
     subtree |-> {}, deleted |-> {}, visited |-> {}, binders |-> {}, copy |-> TRUE]

Log(a, e) == IF Ok(a) THEN [a EXCEPT !.log = Append(@, e)] ELSE a

\* Every incoming non-Binder edge `from` had in `pre` is an edge of `post`
\* with target `to`, and the root follows.
Rehomed(pre, post, from, to) ==
    /\ \A e \in EdgeSet(pre) : (e.dst = from /\ ~IsBinder(e.lbl))
            => [e EXCEPT !.dst = to] \in EdgeSet(post)
    /\ pre.root = from => post.root = to

\* ----------------------------------------------------------------- reducer
\* One unit of fuel per recursive call; a run that exhausts it is a program
\* that does not terminate within the bound (status "fuel").
Burn(a) ==
    IF ~Ok(a) THEN a
    ELSE IF a.fuel = 0 THEN [a EXCEPT !.status = "fuel"]
    ELSE [a EXCEPT !.fuel = @ - 1]

Put(m, k, v) == [x \in (DOMAIN m) \cup {k} |-> IF x = k THEN v ELSE m[x]]

RECURSIVE evaluate(_, _)
RECURSIVE clone_subtree(_, _, _)
RECURSIVE CloneEdges(_, _, _, _, _)
RECURSIVE remove_subtree(_, _)
RECURSIVE RemoveChildren(_, _)

\* The edges of node_id are copied onto cloned_id one by one; ret is
\* cloned_id.  `owned` says that the target of the first edge of es has just
\* been cloned and a.ret is its copy.
CloneEdges(a, cloned_id, es, binder_remaps, owned) ==
    CASE a.status # "ok" -> a
      [] es = <<>> -> [a EXCEPT !.ret = cloned_id]
      [] owned ->
           CloneEdges(add_edge(a, cloned_id, a.ret, Head(es).lbl), cloned_id, Tail(es),
                      binder_remaps, FALSE)
      [] IsBinder(Head(es).lbl) ->
           CloneEdges(add_edge(a, cloned_id,
                               IF Head(es).dst \in DOMAIN binder_remaps
                               THEN binder_remaps[Head(es).dst] ELSE Head(es).dst,
                               Head(es).lbl),
                      cloned_id, Tail(es), binder_remaps, FALSE)
      [] OTHER -> CloneEdges(clone_subtree(a, Head(es).dst, binder_remaps), cloned_id, es,
                             binder_remaps, TRUE)

\* The copy of node_id gets the weight `node`; its edges are cloned after it.
CloneSubtree(a0, node_id, binder_remaps, node) ==
    CASE a0.status # "ok" -> a0
      [] a0.fuel = 0 -> Burn(a0)
      [] ~contains_node(a0, node_id) -> Panic(Burn(a0), "node_weight(node_id).unwrap()")
      [] OTHER ->
           CloneEdges(add_node(Burn(a0), node), add_node(a0, node).ret, edges_out(a0, node_id),
                      IF node.kind \in {"Closure", "Lambda"}
                      THEN Put(binder_remaps, node_id, add_node(a0, node).ret)
                      ELSE binder_remaps,
                      FALSE)

\* clone_subtree that gives the copy of a custom Data node the uid 0.
clone_subtree_renumbers(a0, node_id, binder_remaps) ==
    CloneSubtree(a0, node_id, binder_remaps, [node_weight(a0, node_id) EXCEPT !.uid = 0])

\* clone_subtree that hands its children an empty binder_remaps.
clone_subtree_forgets_remaps(a0, node_id, binder_remaps) ==
    CloneSubtree(a0, node_id, <<>>, node_weight(a0, node_id))

clone_subtree(a0, node_id, binder_remaps) ==
    CloneSubtree(a0, node_id, binder_remaps, node_weight(a0, node_id))

RemoveChildren(a, children) ==
    IF ~Ok(a) \/ children = <<>> THEN a
    ELSE RemoveChildren(remove_subtree(a, Head(children)), Tail(children))

\* remove_subtree that deletes the node and leaves its children.
remove_subtree_node_only(a0, node_id) == remove_node(Burn(a0), node_id)

remove_subtree(a0, node_id) ==
    LET Owns(e) == ~IsBinder(e.lbl)
        Targets(es) == [i \in 1..Len(es) |-> es[i].dst]
        Remove(a) ==
            IF ~Ok(a) THEN a
            ELSE remove_node(RemoveChildren(a, Targets(SelectSeq(edges_out(a, node_id), Owns))),
                             node_id)
    IN Remove(Burn(a0))

\* Returns the dangling parameter.
remove_closure(a, closure_id) ==
    LET Strip(body, parameter) ==
            IF ~Ok(body) \/ ~Ok(parameter)
            THEN Panic(a, "remove_closure: follow_edge(..).unwrap()")
            ELSE [remove_node(migrate_node(a, closure_id, body.ret), closure_id)
                    EXCEPT !.ret = parameter.ret]
    IN IF ~Ok(a) THEN a
       ELSE Strip(follow_edge(a, closure_id, Body), follow_edge(a, closure_id, Parameter))

LiftClosureChain(a, node_id, node_under_closures, edge, lifts, hooks) ==
    LET Hoisted(m, first_closure) ==
            redirect_edge(m,
                          IF Ok(m)
                          THEN LastIndex({i \in 1..Len(m.edges) :
                                            /\ m.edges[i].src = node_id
                                            /\ m.edges[i].lbl = edge
                                            /\ m.edges[i].dst = first_closure})
                          ELSE 0,
                          node_under_closures)
        Lift(first_closure) ==
            add_debug_frame_with_annotation(
                Hoisted(IF hooks
                        THEN migrate_node(migrate_node(a, node_id, first_closure),
                                          node_under_closures, node_id)
                        ELSE migrate_node(a, node_id, first_closure),
                        first_closure),
                node_under_closures)
        Target(i) ==
            IF i = 0 THEN EdgeNotFound(a, node_id, edge)
            ELSE IF node_weight(a, a.edges[i].dst).kind = "Closure" /\ lifts
            THEN Lift(a.edges[i].dst)
            ELSE a
    IN IF ~Ok(a) THEN a
       ELSE IF ~contains_node(a, node_under_closures)
       THEN Panic(a, "node_weight(node_under_closures).unwrap()")
       ELSE IF node_weight(a, node_under_closures).kind = "Closure"
       THEN Panic(a, "Node under closures can't itself be a closure")
       ELSE Target(get_edge_ref(a, node_id, edge))

\* lift_closure_chain that leaves a closure chain where it is.
lift_closure_chain_never(a, node_id, node_under_closures, edge) ==
    LiftClosureChain(a, node_id, node_under_closures, edge, FALSE, TRUE)

\* lift_closure_chain that does not hang the node under the closure chain.
lift_closure_chain_unhooked(a, node_id, node_under_closures, edge) ==
    LiftClosureChain(a, node_id, node_under_closures, edge, TRUE, FALSE)

lift_closure_chain(a, node_id, node_under_closures, edge) ==
    LiftClosureChain(a, node_id, node_under_closures, edge, TRUE, TRUE)

\* Properly evaluates closure's parameter; ret is the parameter and
\* dangling tells whether the closure was stripped (last usage).  `referrers`
\* is the count `binder_references(..).take(2).count()` is compared with.
\* The "force" event records the dereference: q is the node the parameter
\* evaluated to, r the node returned, refs and forced the referrers and the
\* history of the closure on entry, work the events of the evaluation.
EvaluateClosureParameter(a, binding_closure_id, referrers) ==
    LET Shared(l) ==
            [follow_edge(l, binding_closure_id, Parameter)
                EXCEPT !.dangling = FALSE, !.forced = @ \cup {binding_closure_id}]
        LastUsage(d) == [remove_closure(d, binding_closure_id) EXCEPT !.dangling = TRUE]
        Recorded(e, d, body, out, has_other_referrers) ==
            Log(out, [NoEvent EXCEPT
                        !.ev = "force", !.c = binding_closure_id, !.q = e.ret, !.r = out.ret,
                        !.refs = Len(binder_references(a, binding_closure_id)),
                        !.dangling = out.dangling,
                        !.forced = binding_closure_id \in a.forced,
                        !.work = Len(e.log) - Len(a.log),
                        !.whnf = WHNF(out, out.ret, Len(out.nodes)),
                        !.ok = has_other_referrers
                               \/ (/\ ~contains_node(out, binding_closure_id)
                                   /\ Rehomed(d, out, binding_closure_id, body.ret)),
                        !.owner = has_other_referrers
                                  \/ Rehomed(a, out, binding_closure_id, body.ret)])
        Dereferenced(e, l, d, has_other_referrers) ==
            Recorded(e, d, follow_edge(d, binding_closure_id, Body),
                     IF has_other_referrers THEN Shared(l) ELSE LastUsage(d),
                     has_other_referrers)
        Lifted(e, l) ==
            IF ~Ok(l) THEN l
            ELSE Dereferenced(e, l, add_debug_frame_with_annotation(l, binding_closure_id),
                              Len(binder_references(e, binding_closure_id)) >= referrers)
        Evaluated(e) ==
            IF e.status # "ok" THEN e
            ELSE Lifted(e, lift_closure_chain(e, binding_closure_id, e.ret, Parameter))
    IN Evaluated(evaluate(follow_edge(a, binding_closure_id, Parameter),
                          follow_edge(a, binding_closure_id, Parameter).ret))

\* evaluate_closure_parameter that strips the closure while one other
\* variable still refers to it.
evaluate_closure_parameter_strips_early(a, binding_closure_id) ==
    EvaluateClosureParameter(a, binding_closure_id, 3)

\* evaluate_closure_parameter that never takes the last-usage branch.
evaluate_closure_parameter_never_strips(a, binding_closure_id) ==
    EvaluateClosureParameter(a, binding_closure_id, 1)

evaluate_closure_parameter(a, binding_closure_id) ==
    EvaluateClosureParameter(a, binding_closure_id, 2)

\* The closure `skip_through` of the Application case; `reevaluates` is its
\* final `ast.evaluate(body)`.  The "skip" event records the nodes owned by
\* the parameter, the nodes deleted, those evaluate had been called on and
\* the binders referred to from the parameter.
SkipThrough(a, node_id, function_target, parameter_target, reevaluates) ==
    LET Binders(subtree) ==
            {e.dst : e \in {x \in EdgeSet(a) : x.src \in subtree /\ IsBinder(x.lbl)}} \ subtree
        Recorded(r, body, subtree, binders) ==
            Log(r, [NoEvent EXCEPT
                      !.ev = "skip", !.n = node_id, !.c = function_target, !.q = parameter_target,
                      !.r = body, !.refs = Len(binder_references(a, function_target)),
                      !.subtree = subtree, !.deleted = Nodes(a) \ Nodes(r),
                      !.visited = a.touched \cap subtree, !.binders = binders,
                      !.ok = /\ Rehomed(a, r, node_id, body)
                             /\ \A b \in binders :
                                  /\ node_weight(r, b) = node_weight(a, b)
                                  /\ SelectSeq(r.edges, LAMBDA e : e.dst = b /\ IsBinder(e.lbl))
                                       = SelectSeq(a.edges, LAMBDA e : e.dst = b /\ IsBinder(e.lbl)
                                                                       /\ e.src \notin subtree)])
        Continue(r, body) == IF reevaluates THEN evaluate(r, body) ELSE [r EXCEPT !.ret = body]
        Skipped(r, body, subtree) ==
            IF ~Ok(r) THEN r ELSE Continue(Recorded(r, body, subtree, Binders(subtree)), body)
        Through(body) ==
            IF ~Ok(body) THEN body
            ELSE Skipped(remove_subtree(remove_node(remove_node(migrate_node(body, node_id, body.ret),
                                                                node_id),
                                                    function_target),
                                        parameter_target),
                         body.ret, Subtree(a, parameter_target))
    IN Through(follow_edge(a, function_target, Body))

\* skip_through that returns the body without `ast.evaluate(body)`.
skip_through_returns_body(a, node_id, function_target, parameter_target) ==
    SkipThrough(a, node_id, function_target, parameter_target, FALSE)

skip_through(a, node_id, function_target, parameter_target) ==
    SkipThrough(a, node_id, function_target, parameter_target, TRUE)

\* The redirection loop that leaves every variable on the lambda.
RedirectReferences_skipped(a, variables, function_target, true_binder) == a

\* "Redirect all variables to a new binder"
RECURSIVE RedirectReferences(_, _, _, _)
RedirectReferences(a, variables, function_target, true_binder) ==
    LET Redirect(variable, i) ==
            IF i = 0 THEN Panic(a, "edges_connecting(variable, function_target).next().unwrap()")
            ELSE RedirectReferences(
                    add_edge(remove_edge_at(a, i), variable, true_binder, a.edges[i].lbl),
                    Tail(variables), function_target, true_binder)
    IN IF ~Ok(a) \/ variables = <<>> THEN a
       ELSE Redirect(Head(variables),
                     LastIndex({i \in 1..Len(a.edges) :
                                   /\ a.edges[i].src = Head(variables)
                                   /\ a.edges[i].dst = function_target}))

\* The Application case of evaluate.  "dead", "alias" and "fire" mark the
\* three rewrites of an application whose function is a Lambda.
EvaluateApplication(a, node_id) ==
    LET \* Lambda node becomes a closure
        Bind(p, closure_id) ==
            evaluate(Log(remove_node(add_edge(p, closure_id, p.ret, Parameter), node_id),
                         [NoEvent EXCEPT !.ev = "fire", !.n = node_id, !.c = closure_id,
                                         !.q = p.ret]),
                     closure_id)
        Closed(m, closure_id, argument_name) ==
            IF Ok(m) THEN [m EXCEPT !.nodes[closure_id] = Closure(argument_name)] ELSE m
        \* Parameter is simply pointing to the other place: no closure
        Alias(tb, function_target, parameter_target) ==
            Log(RedirectReferences(tb, binder_references(tb, function_target),
                                   function_target, tb.ret),
                [NoEvent EXCEPT !.ev = "alias", !.n = node_id, !.c = function_target,
                                !.q = parameter_target, !.r = tb.ret])
        \* Function has no binders, parameter will be ignored!
        Dead(d, function_target, parameter_target) ==
            Log(d, [NoEvent EXCEPT !.ev = "dead", !.n = node_id, !.c = function_target,
                                   !.q = parameter_target])
        Apply(pt, function_target, parameter_target) ==
            CASE pt.status # "ok" -> pt
              [] node_weight(pt, function_target).kind # "Lambda" -> [pt EXCEPT !.ret = node_id]
              [] binder_references(pt, function_target) = <<>>
                 \/ node_weight(pt, parameter_target).kind = "Bound" ->
                   skip_through(
                      IF binder_references(pt, function_target) = <<>>
                      THEN Dead(add_debug_frame_with_annotation(pt, function_target),
                                function_target, parameter_target)
                      ELSE Alias(follow_edge(add_debug_frame_with_annotation(pt, node_id),
                                             parameter_target, Binder(0)),
                                 function_target, parameter_target),
                      node_id, function_target, parameter_target)
              [] OTHER ->
                   Bind(follow_edge(Closed(migrate_node(pt, node_id, function_target),
                                           function_target, node_weight(pt, function_target).name),
                                    node_id, Parameter),
                        function_target)
        Function_(ft) ==
            Apply(follow_edge(ft, node_id, Parameter), ft.ret,
                  follow_edge(ft, node_id, Parameter).ret)
        Lifted(e) ==
            IF e.status # "ok" THEN e
            ELSE Function_(follow_edge(lift_closure_chain(e, node_id, e.ret, Function), node_id, Function))
    IN Lifted(evaluate(follow_edge(a, node_id, Function), follow_edge(a, node_id, Function).ret))

\* The Variable case of evaluate.  The "replace" event records the variable
\* n, its closure c, the parameter q, the node r put in the variable's place,
\* the number of nodes cloning added and whether r has the weight of q.
EvaluateVariable(a, node_id) ==
    LET Recorded(p, r, binder, cloned_node_id, added) ==
            IF r.status # "ok" THEN r
            ELSE [Log(r, [NoEvent EXCEPT
                            !.ev = "replace", !.n = node_id, !.c = binder, !.q = p.ret,
                            !.r = cloned_node_id, !.dangling = p.dangling,
                            !.refs = Len(binder_references(a, binder)),
                            !.added = added,
                            !.copy = (node_weight(r, cloned_node_id) = node_weight(p, p.ret)),
                            !.ok = ~contains_node(r, node_id)
                                   /\ Rehomed(p, r, node_id, cloned_node_id)])
                    EXCEPT !.ret = cloned_node_id]
        Replaced(p, cl, binder, cloned_node_id) ==
            Recorded(p, remove_node(migrate_node(cl, node_id, cloned_node_id), node_id),
                     binder, cloned_node_id, cl.clock - p.clock)
        Cloned(p, cl, binder) ==
            IF cl.status # "ok" THEN cl
            ELSE Replaced(p, cl, binder, IF p.dangling THEN p.ret ELSE cl.ret)
        Dereferenced(p, binder) ==
            IF p.status # "ok" THEN p
            ELSE Cloned(p, IF p.dangling THEN p ELSE clone_subtree(p, p.ret, <<>>), binder)
        Followed(b) ==
            Dereferenced(IF b.status = "ok" THEN evaluate_closure_parameter(b, b.ret) ELSE b, b.ret)
    IN Followed(follow_edge(a, node_id, Binder(0)))

\* ---------------------------------------------------------------- built-ins
\* AST::add_expr_from_str: the expression is parsed into the same graph.
add_expr_from_str(a, t) ==
    parse_expr([a |-> a, toks |-> lexer(t)], 0, <<>>).a

\* get_binders without the sort: the targets in petgraph's order.
get_binders_unsorted(a, id) ==
    LET es == edges_out(a, id)
    IN [k \in 1..Len(es) |-> es[k].dst]

\* Targets of the outgoing edges ordered by Binder index (stable sort of
\* petgraph's newest-first order); any other outgoing edge panics.
get_binders(a, id) ==
    LET es == edges_out(a, id)
        Rank(i) == 1 + Cardinality({j \in 1..Len(es) :
                        es[j].lbl.i < es[i].lbl.i \/ (es[j].lbl.i = es[i].lbl.i /\ j < i)})
    IN [k \in 1..Len(es) |-> es[CHOOSE i \in 1..Len(es) : Rank(i) = k].dst]

HasOnlyBinders(a, id) == \A i \in 1..Len(edges_out(a, id)) : IsBinder(edges_out(a, id)[i].lbl)

\* ret is the number held by the primitive, or the operation fails.
extract_primitive_from_environment(a, closure_id) ==
    LET Taken(p, r) ==
            IF ~Ok(p) THEN p
            ELSE IF node_weight(p, p.ret).kind \in {"Primitive", "Bytes"}
            THEN [r EXCEPT !.prim = node_weight(p, p.ret)]
            ELSE Custom(r, closure_id, "Not a primitive")
        Extracted(p) == Taken(p, IF p.dangling THEN remove_node(p, p.ret) ELSE p)
    IN Extracted(evaluate_closure_parameter(a, closure_id))

Primitive_extract_number(a) ==
    IF ~Ok(a) THEN a
    ELSE IF a.prim.kind = "Primitive" THEN [a EXCEPT !.ret = a.prim.num]
    ELSE Custom(a, 0, "Not a number")

next_uid(a) == [a EXCEPT !.uid = @ + 1, !.ret = a.uid + 1]

RECURSIVE Power(_, _)
Power(b, e) == IF e = 0 THEN 1 ELSE b * Power(b, e - 1)

\* One operand of an arithmetic tag: the argument is evaluated and the
\* number under the edge extracted; an Err is a value of the operand.
ArithmeticOperand(a, id, argument_index) ==
    LET Number(g) ==
            IF ~Ok(g) THEN g
            ELSE IF node_weight(g, g.ret).kind = "Primitive"
            THEN [g EXCEPT !.ret = node_weight(g, g.ret).num]
            ELSE Custom(g, g.ret, "NaN")
        Evaluated(e) == Number(follow_edge(e, id, ConstructorArgument(argument_index)))
        Followed(f) == Evaluated(IF Ok(f) THEN evaluate(f, f.ret) ELSE f)
    IN Followed(follow_edge(a, id, ConstructorArgument(argument_index)))

ArithmeticTag_evaluate(a, id, tag) ==
    LET Replaced(result) == [migrate_node(result, id, result.ret) EXCEPT !.ret = result.ret]
        Number(what, to) ==
            CASE tag = "Add" -> what + to
              [] tag = "Mul" -> what * to
              [] tag = "Pow" -> Power(to, what)
              [] tag = "Sub" -> IF to >= what THEN to - what ELSE 0
              [] tag = "Div" -> to \div what
        Operands(r0, r1) ==
            IF r0.status \in {"panic", "fuel"} THEN r0
            ELSE IF r1.status \in {"panic", "fuel"} THEN r1
            ELSE IF r0.status = "err" THEN [r1 EXCEPT !.status = "err", !.err = r0.err]
            ELSE IF r1.status = "err" THEN r1
            ELSE IF tag = "Div" /\ r0.ret = 0 THEN Panic(r1, "attempt to divide by zero")
            ELSE Replaced(IF tag = "Eq"
                          THEN add_expr_from_str(r1,
                                   IF r0.ret = r1.ret THEN Lam("x", Lam("y", Var("x")))
                                                      ELSE Lam("x", Lam("y", Var("y"))))
                          ELSE add_node(r1, PrimitiveNumber(Number(r0.ret, r1.ret))))
        What(r0) ==
            Operands(r0, ArithmeticOperand(IF r0.status = "err"
                                           THEN [r0 EXCEPT !.status = "ok", !.err = NoErr]
                                           ELSE r0,
                                           id, 1))
    IN What(ArithmeticOperand(a, id, 0))

\* The loop of Match that walks to the head of `constructor`.
RECURSIVE WalkToData(_, _)
WalkToData(a0, current) ==
    LET Step(n) == IF Ok(n) THEN WalkToData(n, n.ret) ELSE n
        Walk(a, kind) ==
            IF ~Ok(a) THEN a
            ELSE IF kind = "Data" THEN [a EXCEPT !.ret = current]
            ELSE IF kind \in {"Closure", "Lambda", "Application"}
            THEN Step(follow_edge(a, current, IF kind = "Application" THEN Function ELSE Body))
            ELSE Panic(a, "unreachable!()")
    IN Walk(Burn(a0), node_weight(a0, current).kind)

\* The uids of the custom tags in the graph.
CustomUids(a) ==
    {node_weight(a, n).uid : n \in {m \in Nodes(a) : node_weight(a, m).kind = "Data" /\ node_weight(a, m).tag = "Custom"}}

\* One Application per binder of the matched value, its Parameter a fresh
\* variable bound to that binder; the binders are visited last to first.
RECURSIVE MatchChain(_, _, _)
MatchChain(a, binders, chain) ==
    LET Applied(ap, variable) ==
            MatchChain(add_edge(ap, ap.ret, variable, Parameter),
                       SubSeq(binders, 1, Len(binders) - 1), Append(chain, ap.ret))
        Variable(v) ==
            Applied(add_node(add_edge(v, v.ret, binders[Len(binders)], Binder(0)), Application),
                    v.ret)
    IN IF ~Ok(a) \/ binders = <<>> THEN [a |-> a, chain |-> chain]
       ELSE Variable(add_node(a, BoundVariable))

RECURSIVE LinkChain(_, _)
LinkChain(a, chain) ==
    IF ~Ok(a) \/ Len(chain) < 2 THEN a
    ELSE LinkChain(add_edge(a, chain[1], chain[2], Function), Tail(chain))

\* The closures the Binder(0) .. Binder(k-1) edges of a Data node target.
ArgumentBinders(a, id) ==
    [i \in 1..Len(edges_out(a, id)) |-> follow_edge(a, id, Binder(i - 1)).ret]

\* node is the chain (((transform b0) b1) ... b(k-1)): a variable bound to
\* transform under one Application per binder, each with a variable bound
\* to that binder as its Parameter.
RECURSIVE MatchShape(_, _, _, _)
MatchShape(a, node, transform, bs) ==
    LET Bound(v, binder) ==
            /\ node_weight(a, v) = BoundVariable
            /\ Len(edges_out(a, v)) = 1
            /\ follow_edge(a, v, Binder(0)).status = "ok"
            /\ follow_edge(a, v, Binder(0)).ret = binder
    IN IF bs = <<>> THEN Bound(node, transform)
       ELSE /\ node_weight(a, node) = Application
            /\ Len(edges_out(a, node)) = 2
            /\ follow_edge(a, node, Parameter).status = "ok"
            /\ Bound(follow_edge(a, node, Parameter).ret, bs[Len(bs)])
            /\ follow_edge(a, node, Function).status = "ok"
            /\ MatchShape(a, follow_edge(a, node, Function).ret, transform,
                          SubSeq(bs, 1, Len(bs) - 1))

\* node is the application `fallback value`: its Function a variable bound
\* to fallback, its Parameter the value itself or a variable bound to the
\* closure that holds the value.
FallbackShape(a, node, fallback, value, value_binder, is_value_dangling) ==
    /\ node_weight(a, node) = Application
    /\ Len(edges_out(a, node)) = 2
    /\ follow_edge(a, node, Function).status = "ok"
    /\ MatchShape(a, follow_edge(a, node, Function).ret, fallback, <<>>)
    /\ follow_edge(a, node, Parameter).status = "ok"
    /\ IF is_value_dangling THEN follow_edge(a, node, Parameter).ret = value
       ELSE /\ MatchShape(a, follow_edge(a, node, Parameter).ret, value_binder, <<>>)
            /\ follow_edge(a, value_binder, Parameter).status = "ok"
            /\ UnderClosures(a, follow_edge(a, value_binder, Parameter).ret, Len(a.nodes)) = value

\* The "hit" and "miss" events of Match record the match node n, the node r
\* put in its place, the node q its evaluation returned, the uid and the
\* number of fields of the value, whether the value was dangling and whether
\* r had the shape of the chain (of `fallback value`) and took the place of n.
HelperFunctionTag_evaluate(a, id, tag) ==
    LET binders == get_binders(a, id)
        \* Replace the node with `head` and evaluate it.
        Matched(pre, m, head, event, evaluated) ==
            Log(evaluated, [event EXCEPT !.n = id, !.r = head, !.q = evaluated.ret,
                                         !.ok = /\ @
                                                /\ ~contains_node(m, id)
                                                /\ Rehomed(pre, m, id, head)])
        Replaced(pre, m, head, event) ==
            IF ~Ok(m) THEN m ELSE Matched(pre, m, head, event, evaluate(m, head))
        Migrated(m, head, event) ==
            Replaced(m, remove_node(migrate_node(m, id, head), id), head, event)
        \* CreateConstructor
        Constructed(arity, u, c, r) ==
            [Log(r, [NoEvent EXCEPT
                       !.ev = "construct", !.n = c.ret, !.refs = u.ret, !.work = arity.ret,
                       !.added = a.uid, !.visited = CustomUids(a),
                       !.ok = /\ node_weight(r, c.ret) = CustomData(u.ret, arity.ret)
                              /\ ~contains_node(r, id)
                              /\ Rehomed(c, r, id, c.ret)])
                EXCEPT !.ret = c.ret]
        Created(arity, u, c) ==
            Constructed(arity, u, c, remove_node(migrate_node(c, id, c.ret), id))
        Numbered(arity, u) == Created(arity, u, add_node(u, CustomData(u.ret, arity.ret)))
        Arity(arity) == IF ~Ok(arity) THEN arity ELSE Numbered(arity, next_uid(arity))
        \* Match, the constructors agree: transform is applied to the fields
        Hit(m, head, value, is_value_dangling, fields, uid) ==
            Migrated(m, head,
                     [NoEvent EXCEPT !.ev = "hit", !.c = value, !.refs = uid,
                                     !.work = Len(fields),
                                     !.dangling = is_value_dangling,
                                     !.ok = IF Ok(m)
                                            THEN MatchShape(m, head, follow_edge(m, id, Binder(1)).ret, fields)
                                            ELSE FALSE])
        Linked(m, chain, value, is_value_dangling, fields, uid) ==
            Hit(LinkChain(m, chain), chain[1], value, is_value_dangling, fields, uid)
        Transformed(mc, tv, value, is_value_dangling, fields, uid) ==
            Linked(add_edge(tv, tv.ret, binders[2], Binder(0)), Append(mc.chain, tv.ret),
                   value, is_value_dangling, fields, uid)
        Fields(mc, value, is_value_dangling, fields, uid) ==
            Transformed(mc, add_node(IF is_value_dangling THEN remove_node(mc.a, value) ELSE mc.a,
                                     BoundVariable),
                        value, is_value_dangling, fields, uid)
        \* Match, they differ: call fallback function with value again
        Miss(m, application, value, is_value_dangling) ==
            Migrated(m, application,
                     [NoEvent EXCEPT !.ev = "miss", !.c = value, !.refs = node_weight(m, value).uid,
                                     !.dangling = is_value_dangling,
                                     !.ok = IF Ok(m)
                                            THEN FallbackShape(m, application,
                                                               follow_edge(m, id, Binder(2)).ret, value,
                                                               follow_edge(m, id, Binder(3)).ret,
                                                               is_value_dangling)
                                            ELSE FALSE])
        Called(ap, function, parameter, value, is_value_dangling) ==
            Miss(add_edge(add_edge(ap, ap.ret, function, Function), ap.ret, parameter, Parameter),
                 ap.ret, value, is_value_dangling)
        Again(vv, function, parameter, value, is_value_dangling) ==
            Called(add_node(vv, Application), function, parameter, value, is_value_dangling)
        Revalue(m, function, value, is_value_dangling) ==
            IF is_value_dangling THEN Again(m, function, value, value, is_value_dangling)
            ELSE Again(add_edge(m, m.ret, binders[4], Binder(0)), function, m.ret,
                       value, is_value_dangling)
        Fallback(m, function, value, is_value_dangling) ==
            Revalue(IF is_value_dangling THEN m ELSE add_node(m, BoundVariable),
                    function, value, is_value_dangling)
        FallbackVariable(fv, value, is_value_dangling) ==
            Fallback(add_edge(fv, fv.ret, binders[3], Binder(0)), fv.ret, value, is_value_dangling)
        \* Match
        Compared(h, value, is_value_dangling, constructor_weight, value_weight) ==
            IF constructor_weight.tag # "Custom" THEN Panic(h, "unreachable!()")
            ELSE IF constructor_weight.uid = value_weight.uid
            THEN IF ~HasOnlyBinders(h, value) THEN Panic(h, "get_binders: panic!()")
                 ELSE Fields(MatchChain(h, get_binders(h, value), <<>>), value, is_value_dangling,
                             ArgumentBinders(h, value), value_weight.uid)
            ELSE FallbackVariable(add_node(h, BoundVariable), value, is_value_dangling)
        Walked(h, v) ==
            IF ~Ok(h) THEN h
            ELSE Compared(h, v.ret, v.dangling, node_weight(h, h.ret), node_weight(v, v.ret))
        Value_(v, constructor) ==
            IF ~Ok(v) THEN v
            ELSE IF ~contains_node(v, v.ret) THEN Panic(v, "node_weight(value).unwrap()")
            ELSE IF ~(node_weight(v, v.ret).kind = "Data" /\ node_weight(v, v.ret).tag = "Custom")
            THEN Custom(v, v.ret, "Not a data constructor")
            ELSE Walked(WalkToData(v, constructor), v)
        \* We are strict only in constructor and value
        Constructor(c) ==
            Value_(IF Ok(c) THEN evaluate_closure_parameter(c, binders[4]) ELSE c, c.ret)
    IN IF ~HasOnlyBinders(a, id) THEN Panic(a, "get_binders: panic!()")
       ELSE IF tag = "CreateConstructor"
       THEN IF Len(binders) # 1
            THEN Custom(a, id, "Incorrect argument count for CreateConstructor")
            ELSE Arity(Primitive_extract_number(extract_primitive_from_environment(a, binders[1])))
       ELSE IF Len(binders) # 4
       THEN Custom(a, id, "Incorrect argument count for Match")
       ELSE Constructor(evaluate_closure_parameter(a, binders[1]))

IOTagNames == {"ReadLine", "Print", "Flatmap"}

\* IOTag::run: ret is the node holding the result of the effect.
IOTag_run(a, id, tag) ==
    LET Printed(p, r) ==
            IF ~Ok(p) THEN p
            ELSE IF ~contains_node(p, p.ret) THEN Panic(p, "node_weight(bytes).unwrap()")
            ELSE IF node_weight(p, p.ret).kind # "Bytes" THEN Custom(p, p.ret, "Expected Bytes")
            ELSE add_node(r, FreeVariable("#io_print finished"))
        Bytes(p) ==
            Printed(p, IF p.dangling
                       THEN remove_node([p EXCEPT !.stdout = Append(@, node_weight(p, p.ret).name)],
                                        p.ret)
                       ELSE [p EXCEPT !.stdout = Append(@, node_weight(p, p.ret).name)])
        Print_(binders) ==
            IF ~HasOnlyBinders(a, id) THEN Panic(a, "get_binders: panic!()")
            ELSE IF binders = <<>> THEN Panic(a, "binders[0]: index out of bounds")
            ELSE Bytes(evaluate_closure_parameter(a, binders[1]))
    IN IF ~Ok(a) THEN a
       ELSE IF tag = "ReadLine"
       THEN add_node(a, Weight("Bytes", a.stdin, 0, "", 0, 0))
       ELSE IF tag = "Print"
       THEN Print_(get_binders(a, id))
       ELSE Custom(a, id, "#io_flatmap is not an effectful IO")

\* IOTag::flatmap: the effect is run and `transform` applied to its result.
IOTag_flatmap(a, id) ==
    LET binders == get_binders(a, id)
        Replaced(m, result) == IF ~Ok(m) THEN m ELSE evaluate(m, result)
        Applied(res, transform, io_result) ==
            Replaced(remove_node(migrate_node(add_edge(add_edge(res, res.ret, transform, Function),
                                                       res.ret, io_result, Parameter),
                                              id, res.ret),
                                 id),
                     res.ret)
        Transform(t, io_result) ==
            IF ~Ok(t) THEN t ELSE Applied(add_node(t, Application), t.ret, io_result)
        Ran(run, io, is_io_dangling) ==
            IF ~Ok(run) THEN run
            ELSE Transform(evaluate_closure_parameter(
                               IF is_io_dangling THEN remove_node(run, io) ELSE run, binders[1]),
                           run.ret)
        Io(i) ==
            IF ~Ok(i) THEN i
            ELSE IF ~contains_node(i, i.ret) THEN Panic(i, "node_weight(io).unwrap()")
            ELSE IF ~(node_weight(i, i.ret).kind = "Data" /\ node_weight(i, i.ret).tag \in IOTagNames)
            THEN Custom(i, id, "Expected IO")
            ELSE Ran(IOTag_run(i, i.ret, node_weight(i, i.ret).tag), i.ret, i.dangling)
    IN IF ~HasOnlyBinders(a, id) THEN Panic(a, "get_binders: panic!()")
       ELSE IF Len(binders) # 2 THEN Custom(a, id, "Incorrect argument count")
       ELSE Io(evaluate_closure_parameter(a, binders[2]))

\* ConstructorTag::evaluate.  The "builtin" event marks the evaluation of a
\* built-in tag.
ConstructorTag_evaluate(a, id) ==
    LET tag == node_weight(a, id).tag
        Builtin(b) ==
            IF tag \in {"Add", "Mul", "Pow", "Sub", "Div", "Eq"} THEN ArithmeticTag_evaluate(b, id, tag)
            ELSE IF tag \in {"CreateConstructor", "Match"} THEN HelperFunctionTag_evaluate(b, id, tag)
            ELSE IOTag_flatmap(b, id)
    IN IF tag \in {"Add", "Mul", "Pow", "Sub", "Div", "Eq", "CreateConstructor", "Match", "Flatmap"}
       THEN Builtin(Log(a, [NoEvent EXCEPT !.ev = "builtin", !.n = id]))
       ELSE [a EXCEPT !.ret = id]

\* Returns NodeIndex under the closure chain.
evaluate(a0, node_id) ==
    LET kind == node_weight(a0, node_id).kind
        Entered == add_debug_frame_with_annotation(Burn(a0), node_id)
        Touched == [Entered EXCEPT !.touched = @ \cup {node_id}]
    IN CASE Entered.status # "ok" -> Entered
         [] kind = "Closure" ->
              evaluate(follow_edge(Touched, node_id, Body), follow_edge(Touched, node_id, Body).ret)
         [] kind = "Application" -> EvaluateApplication(Touched, node_id)
         [] kind = "Bound" -> EvaluateVariable(Touched, node_id)
         [] kind = "Data" -> ConstructorTag_evaluate(Touched, node_id)
         [] OTHER -> [Touched EXCEPT !.ret = node_id]

\* ---------------------------------------------------------- pre-pass GC
\* StripAll that deletes each closure with its body and its parameter.
RECURSIVE StripAll_with_bodies(_, _)
StripAll_with_bodies(a, closures) ==
    IF ~Ok(a) \/ closures = <<>> THEN a
    ELSE StripAll_with_bodies(remove_subtree(a, Head(closures)), Tail(closures))

RECURSIVE StripAll(_, _)
StripAll(a, closures) ==
    LET Stripped(r) == StripAll(remove_subtree(r, r.ret), Tail(closures))
    IN IF ~Ok(a) \/ closures = <<>> THEN a
       ELSE Stripped(remove_closure(a, Head(closures)))

\* The loop of garbage_collect; each pass that finds unused closures is a
\* "pass" event that records them.
RECURSIVE garbage_collect(_)
Loop(a0, repeat) ==
    LET \* node_indices() yields the closures in increasing index order
        Ordered(unused) ==
            [i \in 1..Cardinality(unused) |->
                CHOOSE n \in unused : Cardinality({m \in unused : m < n}) = i - 1]
        Again(a) == IF repeat THEN garbage_collect(a) ELSE a
        Collect(a, unused) ==
            IF ~Ok(a) \/ unused = {} THEN a
            ELSE Again(StripAll(Log(a, [NoEvent EXCEPT !.ev = "pass", !.visited = unused]),
                                Ordered(unused)))
        Unused(a) ==
            Collect(a, {n \in 1..Len(a.nodes) :
                           node_weight(a, n).kind = "Closure" /\ binder_references(a, n) = <<>>})
    IN Unused(Burn(a0))

\* garbage_collect that makes one pass only.
garbage_collect_once(a0) == Loop(a0, FALSE)

garbage_collect(a0) == Loop(a0, TRUE)

App2(f, x, y) == App(App(f, x), y)

\* The end-to-end scenarios of the specification and programs that reach
\* sharing, lifting, the last-reference, dead-parameter and indirection
\* cases, one with a binding the pre-pass removes and the last ones with
\* closure chains in function position.
Scenarios ==
    {App2(Var("+"), Var("2"), Var("3")),
     App2(Lam("x", Lam("y", Var("x"))), Var("7"), Var("99")),
     With("id", Lam("x", Var("x")), App(Var("id"), App(Var("id"), Var("42")))),
     With("pair", Lam("a", Lam("b", Lam("s", App2(Var("s"), Var("a"), Var("b"))))),
          App(App2(Var("pair"), Var("3"), Var("5")),
              Lam("a", Lam("b", App2(Var("+"), Var("a"), Var("b")))))),
     With("pair", Lam("a", Lam("b", Lam("s", App2(Var("s"), Var("a"), Var("b"))))),
          App(App2(Var("pair"), Var("3"), Var("5")), Lam("a", Lam("b", Var("b"))))),
     App(Lam("x", App(Var("x"), Var("x"))), Lam("x", App(Var("x"), Var("x")))),
     With("v", App(Lam("z", Var("z")), Var("1")),
          App2(Lam("a", Lam("b", Var("a"))), Var("v"), Var("v"))),
     With("v", App(Lam("z", Lam("w", Var("z"))), Var("1")),
          App(App(Var("v"), Var("2")), App(Var("v"), Var("3")))),
     App(Lam("f", App(Var("f"), App(Var("f"), Var("1")))), Lam("z", Var("z"))),
     With("v", With("u", Var("1"), Lam("z", Var("u"))), App2(Var("g"), App(Var("v"), Var("2")), Var("v"))),
     With("v", App(Lam("z", Var("z")), Lam("w", Var("w"))),
          App(Var("v"), App(Var("v"), App(Var("v"), Var("1"))))),
     With("y", Var("1"), App(Lam("x", Var("y")), App(Var("y"), Var("y")))),
     With("a", Var("7"), With("b", App(Var("a"), Var("a")),
          App(Lam("z", Var("z")), App(Lam("w", Var("w")), Var("a"))))),
     App(With("x", Var("1"), Lam("y", Var("x"))), Var("2")),
     App(With("x", Var("1"), With("y", Var("x"), Lam("z", App2(Var("g"), Var("y"), Var("z"))))), Var("2")),
     App2(Var("g"), Var("1"), App(With("x", Var("1"), Lam("y", Var("x"))), Var("2")))}

\* `op what to` for every arithmetic built-in over small numerals.
ArithmeticOperators == {"+", "-", "*", "/", "^", "=num"}
Numerals == {"0", "1", "2", "3"}
ArithmeticPrograms == {App2(Var(op), Var(what), Var(to)) : op \in ArithmeticOperators, what, to \in Numerals}

\* The factorial of the specification's scenario 7, with the name `=num` the
\* tag table gives the equality test: `with fix .. in with fact .. in fact n`.
Fix ==
    Lam("f", App(Lam("x", App(Var("f"), App(Var("x"), Var("x")))),
                 Lam("x", App(Var("f"), App(Var("x"), Var("x"))))))

Fact(n) ==
    With("fix", Fix,
         With("fact",
              App(Var("fix"),
                  Lam("rec", Lam("n",
                      App(App(App2(Var("=num"), Var("n"), Var("0")), Var("1")),
                          App2(Var("*"), Var("n"),
                               App(Var("rec"), App2(Var("-"), Var("1"), Var("n")))))))),
              App(Var("fact"), Var(n))))

FactPrograms == {Fact(n) : n \in {"0", "1", "5"}}

\* Programs whose binders carry the name of a built-in tag or a numeral:
\* the abstractions and bindings of up to three syntax nodes, and one program
\* that mixes shadowed and unshadowed occurrences.
ShadowPrograms ==
    {t \in TermsOver({"+", "1", "x"}, {"+", "1"}, 2) \cup TermsOver({"+", "1", "x"}, {"+", "1"}, 3) :
        t.k \in {"lam", "with"}}
    \cup {With("+", Lam("x", Lam("1", App2(Var("+"), Var("x"), Var("1")))),
                App2(Var("+"), Var("1"), Var("g")))}

\* Programs that apply a lambda with two bound occurrences to a variable:
\* `(\x. x x) y` under a binding or an abstraction of y, alone and applied
\* to y again.
AliasPrograms ==
    {With("y", Lam("z", Var("z")), App(Lam("x", App(Var("x"), Var("x"))), Var("y"))),
     With("y", Lam("z", Var("z")), App2(Lam("x", App(Var("x"), Var("x"))), Var("y"), Var("y"))),
     Lam("y", App(Lam("x", App(Var("x"), Var("x"))), Var("y"))),
     Lam("y", App2(Lam("x", App(Var("x"), Var("x"))), Var("y"), Var("y")))}

\* Programs with an unused binding inside the parameter of another binding
\* that ends unused: `with a (with b 1 in 2) in 3`, and
\* `(\x. (\z. 7) x) (with b 1 in 2)`, whose x is dropped by evaluate.
NestedPrograms ==
    {With("a", With("b", Var("1"), Var("2")), Var("3")),
     App(Lam("x", App(Lam("z", Var("7")), Var("x"))), With("b", Var("1"), Var("2")))}

\* The input programs: the scenarios, the arithmetic programs, the
\* factorials, the shadowing programs, the aliasing programs, the nested
\* bindings and every program of up to MaxSize syntax nodes over Atoms, in
\* parts.
Programs ==
    {Scenarios, ArithmeticPrograms, FactPrograms, ShadowPrograms, AliasPrograms, NestedPrograms}
        \cup UNION {TermParts(Atoms, Names, s) : s \in 1..MaxSize}

\* ------------------------------------------- reference term-tree reducer
\* Expr of main.rs: variables carry a De Bruijn depth (0 stands for Free);
\* num is the value of a numeral name, -1 for any other name.
ExprVar(name, d, num) == [k |-> "Var", name |-> name, d |-> d, num |-> num, a |-> Nil, b |-> Nil]
ExprLambda(name, body) == [k |-> "Lambda", name |-> name, d |-> 0, num |-> -1, a |-> body, b |-> Nil]
ExprCall(f, x) == [k |-> "Call", name |-> "", d |-> 0, num |-> -1, a |-> f, b |-> x]
ExprNumber(n) == ExprVar("", 0, n)
Diverged == [k |-> "Diverged", name |-> "", d |-> 0, num |-> -1, a |-> Nil, b |-> Nil]

\* Expr::from_str: names are resolved to the innermost enclosing lambda,
\* depth 1 being the nearest; `with x v in e` is (λx.e) v.
RECURSIVE Expr_from_str(_, _)
Expr_from_str(t, ctx) ==
    CASE t.k = "var" ->
           LET I == {i \in 1..Len(ctx) : ctx[i] = t.n}
           IN IF I = {} THEN ExprVar(t.n, 0, ParseUsize(t.n))
              ELSE ExprVar(t.n, Len(ctx) + 1 - (CHOOSE i \in I : \A j \in I : j <= i), -1)
      [] t.k = "lam" -> ExprLambda(t.n, Expr_from_str(t.a, Append(ctx, t.n)))
      [] t.k = "app" -> ExprCall(Expr_from_str(t.a, ctx), Expr_from_str(t.b, ctx))
      [] t.k = "with" -> ExprCall(ExprLambda(t.n, Expr_from_str(t.b, Append(ctx, t.n))),
                                  Expr_from_str(t.a, ctx))

RECURSIVE adjust_depth(_, _, _)
adjust_depth(e, cutoff, by) ==
    CASE e.k = "Var" -> IF e.d # 0 /\ e.d >= cutoff THEN [e EXCEPT !.d = @ + by] ELSE e
      [] e.k = "Lambda" -> [e EXCEPT !.a = adjust_depth(e.a, cutoff + 1, by)]
      [] e.k = "Call" -> [e EXCEPT !.a = adjust_depth(e.a, cutoff, by), !.b = adjust_depth(e.b, cutoff, by)]
      [] OTHER -> e

RECURSIVE substitute(_, _, _)
substitute(e, with, at_depth) ==
    CASE e.k = "Var" -> IF e.d # 0 /\ e.d = at_depth THEN with ELSE e
      [] e.k = "Lambda" -> [e EXCEPT !.a = substitute(e.a, adjust_depth(with, 1, 1), at_depth + 1)]
      [] e.k = "Call" -> [e EXCEPT !.a = substitute(e.a, with, at_depth), !.b = substitute(e.b, with, at_depth)]
      [] OTHER -> e

ArithmeticNames == {"+", "-", "*", "/", "^"}

\* The arithmetic table of the built-ins: `op what to`.
ArithmeticTable(op, what, to) ==
    CASE op = "+" -> what + to
      [] op = "*" -> what * to
      [] op = "-" -> IF to >= what THEN to - what ELSE 0
      [] op = "/" -> IF what = 0 THEN -1 ELSE to \div what
      [] op = "^" -> Power(to, what)

RECURSIVE Expr_evaluate(_, _)

\* Expr::handle_builtin_functions for the arithmetic tags: `op what to` with
\* both operands reduced to numerals is the numeral of the table.  Nil
\* stands for None.
handle_builtin_functions(function, argument, fuel) ==
    LET Applied(what, to) ==
            IF what.k = "Diverged" \/ to.k = "Diverged" THEN Diverged
            ELSE IF what.k = "Var" /\ what.num >= 0 /\ to.k = "Var" /\ to.num >= 0
                    /\ ArithmeticTable(function.a.name, what.num, to.num) >= 0
            THEN ExprNumber(ArithmeticTable(function.a.name, what.num, to.num))
            ELSE Nil
    IN IF function.k = "Call" /\ function.a.k = "Var" /\ function.a.d = 0
          /\ function.a.name \in ArithmeticNames
       THEN Applied(Expr_evaluate(function.b, fuel), Expr_evaluate(argument, fuel))
       ELSE Nil

\* Expr::evaluate (call by name); fuel bounds the number of nested calls.
Expr_evaluate(e, fuel) ==
    IF fuel = 0 THEN Diverged
    ELSE IF e.k # "Call" THEN e
    ELSE LET Reduced(evaluated_function, builtin) ==
                 CASE evaluated_function.k = "Diverged" -> Diverged
                   [] builtin # Nil -> builtin
                   [] evaluated_function.k = "Lambda" ->
                        Expr_evaluate(adjust_depth(substitute(evaluated_function.a, adjust_depth(e.b, 1, 1), 1), 1, -1),
                                      fuel - 1)
                   [] evaluated_function.k = "Var" ->
                        LET argument == Expr_evaluate(e.b, fuel - 1)
                        IN IF argument.k = "Diverged" THEN Diverged
                           ELSE ExprCall(evaluated_function, argument)
                   [] OTHER -> e
             Applied(evaluated_function) ==
                 Reduced(evaluated_function, handle_builtin_functions(evaluated_function, e.b, fuel - 1))
         IN Applied(Expr_evaluate(e.a, fuel - 1))

\* The number the reference reducer yields for a program, -1 when it
\* yields none within the bound.
ReferenceNumber(t) ==
    LET r == Expr_evaluate(Expr_from_str(t, <<>>), MaxFuel)
    IN IF r.k = "Var" /\ r.d = 0 THEN r.num ELSE -1

\* ------------------------------------------------------------ state machine
\* program: the source text; ast: the graph; pc: the last operation run;
\* calls: operations run so far; before: the graph the last operation
\* started from; result: the node the last evaluate returned.
VARIABLES program, ast, pc, calls, before, result

vars == <<program, ast, pc, calls, before, result>>

Init ==
    /\ \E part \in Programs : program \in part
    /\ ast = from_str(lexer(program))
    /\ pc = "parsed"
    /\ calls = 0
    /\ before = ast
    /\ result = 0

\* ast.garbage_collect()
GarbageCollect ==
    /\ Ok(ast)
    /\ calls < MaxCalls
    /\ ast' = garbage_collect([ast EXCEPT !.fuel = MaxFuel, !.log = <<>>])
    /\ pc' = "collected"
    /\ calls' = calls + 1
    /\ before' = ast
    /\ UNCHANGED <<program, result>>

\* ast.evaluate(ast.root)
Evaluate ==
    /\ Ok(ast)
    /\ calls < MaxCalls
    /\ ast' = evaluate([ast EXCEPT !.fuel = MaxFuel, !.log = <<>>], ast.root)
    /\ pc' = "evaluated"
    /\ calls' = calls + 1
    /\ before' = ast
    /\ result' = ast'.ret
    /\ UNCHANGED program

Next == GarbageCollect \/ Evaluate

Spec == Init /\ [][Next]_vars

\* The build the specification describes: built-in tags are parsed into
\* their saturated form and the I/O tags of builtins/io.rs are enabled.
SatAtoms == {"x", "1", "#io_readline", "#io_flatmap", "#constructor"}

SatScenarios ==
    {With("f", App(Var("#io_flatmap"), Var("x")),
          App2(Var("f"), Var("#io_readline"), Var("f"))),
     With("f", App(Var("#io_flatmap"), Lam("x", Var("x"))),
          App2(Var("f"), Var("#io_readline"), Var("f"))),
     App2(Var("#io_flatmap"), Lam("x", Var("x")), App(Var("#io_print"), Str("hi"))),
     App2(Var("#io_flatmap"), Var("#io_print"), Var("#io_readline"))}

\* `#match constructor transform fallback value`
Match(constructor, transform, fallback, value) ==
    App(App(App2(Var("#match"), constructor, transform), fallback), value)

\* Built-ins applied to arguments of the wrong type: an arithmetic operand
\* that is no Number, a match value that is no custom Data, and a match
\* constructor whose head is no Data node or a Data node of a built-in tag.
MismatchPrograms ==
    {App2(Var("+"), Var("x"), Var("1")),
     App2(Var("+"), Var("1"), Lam("x", Var("x"))),
     With("c", App(Var("#constructor"), Var("0")), Match(Var("c"), Var("x"), Var("y"), Var("1"))),
     With("c", App(Var("#constructor"), Var("0")), Match(Var("1"), Var("x"), Var("y"), Var("c"))),
     With("c", App(Var("#constructor"), Var("0")), Match(Var("z"), Var("x"), Var("y"), Var("c"))),
     With("c", App(Var("#constructor"), Var("0")), Match(Var("+"), Var("x"), Var("y"), Var("c")))}

\* Programs that create constructors with `#constructor` and take them
\* apart with `#match`: the constructors agree, differ, are shared, and a
\* match is the fallback of another.
WithConstructor(name, arity, body) == With(name, App(Var("#constructor"), Var(arity)), body)

ConstructorPrograms ==
    {WithConstructor("c", "0", Match(Var("c"), Var("x"), Var("y"), Var("c"))),
     WithConstructor("c", "2", Match(Var("c"), Var("x"), Var("y"), Var("c"))),
     WithConstructor("c", "0", Match(Var("c"), Lam("x", Var("x")), Var("y"), Var("c"))),
     WithConstructor("c", "0", WithConstructor("d", "2", Match(Var("c"), Var("x"), Var("y"), Var("d")))),
     WithConstructor("c", "0", WithConstructor("d", "0", Match(Var("c"), Var("x"), Lam("v", Var("v")), Var("d")))),
     WithConstructor("c", "0", WithConstructor("d", "2",
         App(Match(Var("d"), Var("x"), Lam("v", Var("c")), Var("c")), Var("c")))),
     WithConstructor("c", "1", WithConstructor("d", "0",
         With("v", Var("d"), App2(Var("g"), Match(Var("c"), Var("x"), Var("y"), Var("v")), Var("v"))))),
     WithConstructor("c", "1", WithConstructor("d", "0",
         With("v", Var("d"), App(Match(Var("c"), Var("x"), Lam("w", Var("w")), Var("v")), Var("v"))))),
     WithConstructor("two", "2",
         Match(Var("two"), Lam("a", Lam("b", App2(Var("+"), Var("a"), Var("b")))), Lam("v", Var("0")),
               App2(Var("two"), Var("10"), Var("20"))))}

\* A match of a value built by the constructor named in `constructor`:
\* the constructor of arity k applied to k numerals.
Saturated(k) ==
    CASE k = "0" -> Var("c")
      [] k = "1" -> App(Var("c"), Var("10"))
      [] k = "2" -> App2(Var("c"), Var("10"), Var("20"))

HitPrograms ==
    {WithConstructor("c", k, Match(Var("c"), Var("x"), Var("y"), Saturated(k))) : k \in {"0", "1", "2"}}

\* `match C1 t1 (match C2 t2 default)`: a match whose fallback is a match.
ChainedPrograms ==
    {WithConstructor("c", "0", WithConstructor("d", "1",
         Match(Var("c"), Var("x"), App(App2(Var("#match"), Var("d"), Var("y")), Var("z")), Var("d")))),
     Match(App(Var("#constructor"), Var("0")), Var("x"),
           App(App2(Var("#match"), App(Var("#constructor"), Var("0")), Var("y")), Var("z")),
           App(Var("#constructor"), Var("0")))}

SatPrograms ==
    {SatScenarios, MismatchPrograms, ConstructorPrograms, HitPrograms, ChainedPrograms} \cup UNION {TermParts(SatAtoms, {"x"}, s) : s \in 1..MaxSize}

Lines == {"", "hi"}

InitSat ==
    /\ \E part \in SatPrograms : program \in part
    /\ \E line \in Lines :
          ast = Parse([NewAST EXCEPT !.saturates = TRUE, !.stdin = line], lexer(program))
    /\ pc = "parsed"
    /\ calls = 0
    /\ before = ast
    /\ result = 0

SpecSat == InitSat /\ [][Next]_vars

\* ------------------------------------------------------------- vocabulary
Evaluated == pc = "evaluated" /\ Ok(ast)

Kind(a, n) == node_weight(a, n).kind

\* A value of the reducer's contract: a primitive, a free variable, a lambda
\* or a Data node with an inert tag.
Value(a, n) ==
    \/ Kind(a, n) \in {"Primitive", "Bytes", "Free", "Lambda"}
    \/ Kind(a, n) = "Data" /\ node_weight(a, n).tag \in InertTags

Under(a, n) == UnderClosures(a, n, Len(a.nodes))

\* The two graphs have the same nodes, the same edges and the same root.
SameGraph(g, h) ==
    /\ Nodes(g) = Nodes(h)
    /\ \A n \in Nodes(g) : node_weight(g, n) = node_weight(h, n)
    /\ EdgeSet(g) = EdgeSet(h)
    /\ Len(g.edges) = Len(h.edges)
    /\ g.root = h.root

Events(ev) == {i \in 1..Len(ast.log) : ast.log[i].ev = ev}

\* The final form under node n, up to node identity: closures are skipped,
\* a variable bound to a closure stands for the closure's parameter, a
\* variable bound to a lambda is named after it; at most MaxDepth deep.
RECURSIVE ReadBack(_, _, _)
ReadBack(a, n, depth) ==
    LET w == node_weight(a, n)
        Next_(e) == IF e.status = "ok" THEN ReadBack(a, e.ret, depth - 1) ELSE Diverged
        Variable(binder) ==
            IF binder.status # "ok" THEN Diverged
            ELSE IF node_weight(a, binder.ret).kind = "Closure"
            THEN Next_(follow_edge(a, binder.ret, Parameter))
            ELSE ExprVar(node_weight(a, binder.ret).name, 1, -1)
    IN IF depth = 0 \/ ~contains_node(a, n) THEN Diverged
       ELSE CASE w.kind = "Primitive" -> ExprNumber(w.num)
              [] w.kind = "Free" -> ExprVar(w.name, 0, -1)
              [] w.kind = "Bytes" -> ExprVar(w.name, 0, -2)
              [] w.kind = "Data" -> ExprVar(w.tag, w.uid, -3 - w.arity)
              [] w.kind = "Lambda" -> ExprLambda(w.name, Next_(follow_edge(a, n, Body)))
              [] w.kind = "Closure" -> Next_(follow_edge(a, n, Body))
              [] w.kind = "Application" ->
                     ExprCall(Next_(follow_edge(a, n, Function)), Next_(follow_edge(a, n, Parameter)))
              [] w.kind = "Bound" -> Variable(follow_edge(a, n, Binder(0)))

\* What an evaluate produced: the final form of the node it returned, or
\* the failure.
Outcome(a) ==
    IF Ok(a) THEN ReadBack(a, a.ret, MaxDepth) ELSE ExprVar("failed", 0, -1)

\* --------------------------------------------------------------- claims

C2_ResultShape == Evaluated => WHNF(ast, result, Len(ast.nodes))

\* C2 (as claimed): the node returned is never an Application.
C2_NeverApplication == Evaluated => Value(ast, result)

C2_Witness == Evaluated /\ Kind(ast, result) = "Application" /\ Events("fire") # {}

\* C3: in every graph the parser, a successful evaluate or garbage_collect
\* leaves, every bound Variable reachable from the root has exactly one
\* outgoing Binder(0) edge, and its target is a live Lambda or Closure.
C3_BinderUniqueness ==
    Ok(ast) => \A n \in Reachable(ast) :
        Kind(ast, n) = "Bound" =>
            /\ Cardinality({i \in 1..Len(ast.edges) :
                                ast.edges[i].src = n /\ ast.edges[i].lbl = Binder(0)}) = 1
            /\ \A e \in EdgeSet(ast) : (e.src = n /\ e.lbl = Binder(0))
                    => Kind(ast, e.dst) \in {"Lambda", "Closure"}

\* A successful evaluate that cloned a shared parameter and left bound
\* variables in the reachable graph.
C3_Witness ==
    /\ Evaluated
    /\ \E i \in Events("replace") : ast.log[i].added > 0
    /\ \E n \in Reachable(ast) : Kind(ast, n) = "Bound"

\* C4 (as claimed): every Data node reachable from the root whose tag has
\* arity k has exactly k outgoing edges Binder(0) .. Binder(k-1), each to a
\* distinct Closure.
C4_DataArity ==
    Ok(ast) => \A n \in Reachable(ast) :
        Kind(ast, n) = "Data" =>
            LET k == ConstructorTag_arity(node_weight(ast, n))
                out == edges_out(ast, n)
            IN /\ Len(out) = k
               /\ \A i \in 0..(k - 1) : \E j \in 1..k : out[j].lbl = Binder(i)
               /\ \A j \in 1..Len(out) : Kind(ast, out[j].dst) = "Closure"
               /\ \A j, l \in 1..Len(out) : out[j].dst = out[l].dst => j = l

\* C6: after evaluate(root) returns Ok(n'), root is a live node and n' is
\* the node reached from root through Body edges of Closure nodes only.
C6_RootStability ==
    Evaluated => (contains_node(ast, ast.root) /\ Under(ast, ast.root) = result)

\* An evaluation that displaced the root and left a residual closure chain.
C6_Witness ==
    /\ Evaluated
    /\ ast.root # before.root
    /\ Kind(ast, ast.root) = "Closure"
    /\ result # ast.root

\* C7 (amended): when the root is a value, or a value wrapped in a closure
\* chain, evaluate(root) succeeds, returns the node under the closure chain
\* (the root itself only when the root is no Closure) and leaves the node
\* set, the edges and the root unchanged.
C7_IdempotentOnWHNF ==
    (pc = "evaluated" /\ Value(before, Under(before, before.root)))
        => /\ Ok(ast)
           /\ result = Under(before, before.root)
           /\ SameGraph(before, ast)

\* C7 (as claimed): evaluate(n) returns n itself.
C7_ReturnsItself ==
    (pc = "evaluated" /\ Value(before, Under(before, before.root)))
        => /\ Ok(ast)
           /\ result = before.root
           /\ SameGraph(before, ast)

\* A value under a closure chain has been evaluated a second time.
C7_Witness ==
    /\ Evaluated
    /\ calls = 2
    /\ Kind(before, before.root) = "Closure"
    /\ Value(before, Under(before, before.root))

\* C8 (amended): when the closure c a bound Variable v refers to has
\* exactly one incoming Binder edge as v is evaluated, the dereference takes
\* the last-usage branch: c is deleted and the owner c has when it is
\* stripped, that is after the closure chain above q has been lifted above
\* c, owns c's former Body; no node is added (clone_subtree is not invoked),
\* and v is deleted and replaced by the very node q the evaluation of c's
\* Parameter returned.
C8_LastReference ==
    \A i \in Events("replace") :
        ast.log[i].refs = 1 =>
            /\ i > 1
            /\ LET f == ast.log[i - 1]
                   r == ast.log[i]
               IN /\ f.ev = "force" /\ f.c = r.c
                  /\ f.dangling /\ r.dangling
                  /\ f.ok
                  /\ r.added = 0
                  /\ r.r = f.q
                  /\ r.ok

\* C8 (as claimed): the owner c had when v's evaluation began owns c's
\* former Body.
C8_FormerOwner ==
    \A i \in Events("replace") :
        ast.log[i].refs = 1 =>
            /\ i > 1
            /\ LET f == ast.log[i - 1]
                   r == ast.log[i]
               IN /\ f.ev = "force" /\ f.c = r.c
                  /\ f.dangling /\ r.dangling
                  /\ f.ok /\ f.owner
                  /\ r.added = 0
                  /\ r.r = f.q
                  /\ r.ok

\* A last reference has been evaluated after the closure's parameter needed
\* reducing.
C8_Witness ==
    /\ Evaluated
    /\ \E i \in Events("replace") :
          /\ ast.log[i].refs = 1
          /\ i > 1 /\ ast.log[i - 1].work > 0

\* C9: a dereference of a closure c with two or more referrers leaves c in
\* place with its Parameter edge on a node in weak-head normal form, and a
\* dereference of a closure whose Parameter an earlier dereference has
\* reduced fires no application and evaluates no built-in.
C9_Sharing ==
    \A i \in Events("force") :
        LET f == ast.log[i]
        IN /\ f.refs >= 2 => (~f.dangling /\ f.whnf)
           /\ f.forced => f.work = 0

\* The parameter of a closure was reduced by a first dereference and the
\* closure, still shared, was dereferenced again.
C9_Witness ==
    /\ Evaluated
    /\ \E i, j \in Events("force") :
          /\ i < j
          /\ ast.log[i].c = ast.log[j].c
          /\ ast.log[i].work > 0 /\ ast.log[i].refs >= 2
          /\ ast.log[j].forced /\ ast.log[j].refs >= 2

\* C10: when the function of an Application is, after lifting, a Lambda
\* with no incoming Binder edge, the application's owner gets the lambda's
\* Body, the application, the lambda and exactly the nodes reachable from
\* the parameter through non-Binder edges are deleted, evaluate was never
\* called on any node of the parameter subtree, and every binder referred
\* to from the subtree survives, losing only the Binder edges that came
\* from the subtree.
C10_DeadParameter ==
    \A i \in Events("dead") :
        \/ ast.status = "fuel"
        \/ /\ i < Len(ast.log)
           /\ LET s == ast.log[i + 1]
              IN /\ s.ev = "skip" /\ s.n = ast.log[i].n /\ s.c = ast.log[i].c
                 /\ s.refs = 0
                 /\ s.visited = {}
                 /\ s.deleted = {s.n, s.c} \cup s.subtree
                 /\ s.ok

\* A dead parameter of several nodes that refers to a binder outside it has
\* been deleted.
C10_Witness ==
    /\ Evaluated
    /\ \E i \in Events("dead") :
          /\ i < Len(ast.log)
          /\ Cardinality(ast.log[i + 1].subtree) >= 2
          /\ ast.log[i + 1].binders # {}

ChurchBoolean(a, n, b) ==
    /\ Kind(a, n) = "Lambda"
    /\ \E inner \in Nodes(a) :
          /\ follow_edge(a, n, Body).ret = inner
          /\ Kind(a, inner) = "Lambda"
          /\ \E v \in Nodes(a) :
                /\ follow_edge(a, inner, Body).ret = v
                /\ Kind(a, v) = "Bound"
                /\ follow_edge(a, v, Binder(0)).ret = (IF b THEN n ELSE inner)

\* C11 (as claimed): `op what to` on two numerals evaluates to the number
\* of the table (Add what+to, Mul what*to, Sub to-what saturating at zero,
\* Div floor(to/what) for what # 0, Pow to^what), and Eq to the Church
\* boolean of what = to.
C11_ArithmeticTable ==
    (pc = "evaluated" /\ calls = 1 /\ program \in ArithmeticPrograms
        /\ ~(program.a.a.n = "/" /\ program.a.b.n = "0"))
    => LET op == program.a.a.n
           what == ParseUsize(program.a.b.n)
           to == ParseUsize(program.b.n)
       IN /\ Ok(ast)
          /\ IF op = "=num" THEN ChurchBoolean(ast, result, what = to)
             ELSE node_weight(ast, result) = PrimitiveNumber(ArithmeticTable(op, what, to))

\* C12 (as claimed): a Div whose divisor (the first argument) is Number 0
\* makes evaluate return a Custom error result, and never aborts.
C12_DivisionByZero ==
    (pc = "evaluated" /\ calls = 1 /\ program \in ArithmeticPrograms
        /\ program.a.a.n = "/" /\ program.a.b.n = "0")
    => (ast.status = "err" /\ ast.err.kind = "Custom")

C17_FixedPoint ==
    pc = "collected" =>
        /\ ast.status # "fuel"
        /\ Ok(ast) => \A n \in Nodes(ast) :
               Kind(ast, n) = "Closure" => binder_references(ast, n) # <<>>
        /\ Ok(ast) => \A i \in Events("pass") : \A c \in ast.log[i].visited :
               ~contains_node(ast, c)

\* A garbage_collect that returned after removing, in its second pass, a
\* closure that was referenced when the call started.
C17_Witness ==
    /\ pc = "collected" /\ Ok(ast)
    /\ \E i, j \in Events("pass") :
          /\ i < j
          /\ \E c \in ast.log[j].visited :
                /\ Kind(before, c) = "Closure"
                /\ binder_references(before, c) # <<>>
                /\ ~contains_node(ast, c)

\* C18: evaluating the parsed graph G and evaluating garbage_collect(G)
\* either both fail or return nodes with the same final form (the same
\* primitive, the same data, lambda or application shape); the nodes
\* garbage_collect removes are closures whose referrers, if any, it removes
\* too, and the nodes of their parameter subtrees.
C18_GCPreservesMeaning ==
    LET G == [from_str(lexer(program)) EXCEPT !.fuel = MaxFuel, !.log = <<>>]
        Same(direct) ==
            (direct.status # "fuel" /\ ast.status # "fuel") => Outcome(direct) = Outcome(ast)
        Removed(closures, deleted) ==
            /\ \A c \in closures :
                  /\ Kind(before, c) = "Closure"
                  /\ \A i \in 1..Len(binder_references(before, c)) :
                        binder_references(before, c)[i] \in deleted
            /\ \A n \in deleted :
                  \/ n \in closures
                  \/ \E c \in closures :
                        n \in Subtree(before, follow_edge(before, c, Parameter).ret)
    IN /\ (pc = "evaluated" /\ calls = 2 /\ before = garbage_collect(G))
           => Same(evaluate(G, G.root))
       /\ (pc = "collected" /\ Ok(ast))
           => Removed(UNION {ast.log[i].visited : i \in Events("pass")},
                      Nodes(before) \ Nodes(ast))

\* An evaluate that fired an application on a graph from which
\* garbage_collect had removed a closure.
C18_Witness ==
    /\ Evaluated /\ calls = 2
    /\ \E i \in 1..Len(before.log) : before.log[i].ev = "pass"
    /\ Events("fire") # {}
    /\ Kind(ast, result) = "Primitive"

\* The positions eligible for the lift rewrite: the reachable Applications
\* whose Function edge targets a Closure.
Eligible(a) ==
    {n \in Reachable(a) :
        /\ Kind(a, n) = "Application"
        /\ follow_edge(a, n, Function).status = "ok"
        /\ Kind(a, follow_edge(a, n, Function).ret) = "Closure"}

\* The lift rewrite applied at the eligible position n.
Lifted(a, n) ==
    lift_closure_chain(a, n, Under(a, follow_edge(a, n, Function).ret), Function)

\* C19: for a graph with an Application whose Function edge targets a
\* closure chain, applying the lift rewrite at that position and then
\* evaluating the root gives the same final form as evaluating the root
\* without applying it (or both fail).
C19_LiftConfluence ==
    LET G == [ast EXCEPT !.fuel = MaxFuel, !.log = <<>>]
        Same(direct, lifted) ==
            (direct.status # "fuel" /\ lifted.status # "fuel") => Outcome(direct) = Outcome(lifted)
        Evaluated_(direct, lifted) == Same(direct, evaluate(lifted, lifted.root))
    IN Ok(ast) => \A n \in Eligible(ast) : Evaluated_(evaluate(G, G.root), Lifted(G, n))

\* A parsed graph with an application of a closure chain that ends in a
\* lambda: the lift changes the graph and the evaluation that follows fires
\* the application and returns a number.
C19_Witness ==
    /\ pc = "parsed"
    /\ \E n \in Eligible(ast) :
          /\ Kind(ast, Under(ast, follow_edge(ast, n, Function).ret)) = "Lambda"
          /\ Ok(Lifted(ast, n))
          /\ ~SameGraph(Lifted(ast, n), ast)
          /\ Ok(evaluate(Lifted(ast, n), Lifted(ast, n).root))
          /\ Kind(evaluate(Lifted(ast, n), Lifted(ast, n).root),
                  evaluate(Lifted(ast, n), Lifted(ast, n).root).ret) = "Primitive"

\* C20: migrate_node(from, to) gives every incoming non-Binder edge of
\* `from` the target `to` and keeps its source and label; every other edge,
\* the incoming Binder edges of `from` among them, is unchanged; no node is
\* added or removed; root becomes `to` exactly when root was `from`.
C20_MigrateFrame ==
    LET Image(e, from, to) ==
            IF e.dst = from /\ ~IsBinder(e.lbl) THEN [e EXCEPT !.dst = to] ELSE e
        Frame(m, from, to) ==
            /\ Ok(m)
            /\ Len(m.nodes) = Len(ast.nodes)
            /\ \A n \in 1..Len(ast.nodes) : m.nodes[n] = ast.nodes[n]
            /\ Len(m.edges) = Len(ast.edges)
            /\ \A x \in EdgeSet(m) \cup {Image(e, from, to) : e \in EdgeSet(ast)} :
                  Cardinality({i \in 1..Len(m.edges) : m.edges[i] = x})
                      = Cardinality({i \in 1..Len(ast.edges) : Image(ast.edges[i], from, to) = x})
            /\ \A e \in EdgeSet(ast) : (e.dst = from /\ IsBinder(e.lbl)) => e \in EdgeSet(m)
            /\ m.root = (IF ast.root = from THEN to ELSE ast.root)
    IN Ok(ast) => \A from, to \in Nodes(ast) : Frame(migrate_node(ast, from, to), from, to)

\* A graph on which evaluate fired an application, in which the root is a
\* binder with a referrer and an owned node has both an owner and a
\* referrer: migrating either moves the owner and the root and leaves the
\* Binder edges.
C20_Witness ==
    /\ Evaluated
    /\ Events("fire") # {}
    /\ binder_references(ast, ast.root) # <<>>
    /\ \E from, to \in Nodes(ast) :
          /\ from # to
          /\ from # ast.root
          /\ Owners(ast, from) # {}
          /\ binder_references(ast, from) # <<>>
          /\ ~SameGraph(migrate_node(ast, from, to), ast)

\* C21: clone_subtree(n, {}) returns a node that was not in the graph, the
\* root of a copy in which every node owned by n (reachable through
\* non-Binder edges) has exactly one copy of the same weight and every edge
\* leaving such a node has exactly one copy with the same label between the
\* copies; a Binder edge to a binder inside the copied region targets the
\* binder's copy, one to a binder outside targets the original binder, which
\* gains one incoming Binder edge per copied reference; the nodes, the edges
\* and the root the graph had are unchanged.
C21_CloneContract ==
    LET G == [ast EXCEPT !.fuel = MaxFuel]
        Target(m, c, lbl) ==
            IF follow_edge(m, c, lbl).status = "ok" THEN follow_edge(m, c, lbl).ret ELSE 0
        RECURSIVE Pairs(_, _, _)
        Pairs(m, o, c) ==
            {<<o, c>>} \cup UNION {Pairs(m, e.dst, Target(m, c, e.lbl)) :
                                     e \in {x \in EdgeSet(ast) : x.src = o /\ ~IsBinder(x.lbl)}}
        Copy(pairs, x) ==
            IF \E p \in pairs : p[1] = x THEN (CHOOSE p \in pairs : p[1] = x)[2] ELSE x
        Image(pairs, e) ==
            [src |-> Copy(pairs, e.src), dst |-> Copy(pairs, e.dst), lbl |-> e.lbl]
        Copied(m, n, pairs, added) ==
            /\ m.ret \notin Nodes(ast)
            /\ <<n, m.ret>> \in pairs
            /\ {p[1] : p \in pairs} = Subtree(ast, n)
            /\ {p[2] : p \in pairs} = Nodes(m) \ Nodes(ast)
            /\ Cardinality(pairs) = Cardinality(Subtree(ast, n))
            /\ Cardinality(pairs) = Cardinality(Nodes(m) \ Nodes(ast))
            /\ \A p \in pairs : node_weight(m, p[2]) = node_weight(ast, p[1])
            /\ \A x \in {added[i] : i \in 1..Len(added)}
                        \cup {Image(pairs, e) : e \in {y \in EdgeSet(ast) : y.src \in Subtree(ast, n)}} :
                  Cardinality({i \in 1..Len(added) : added[i] = x})
                      = Cardinality({i \in 1..Len(ast.edges) :
                                        /\ ast.edges[i].src \in Subtree(ast, n)
                                        /\ Image(pairs, ast.edges[i]) = x})
            /\ \A b \in Nodes(ast) \ Subtree(ast, n) :
                  Len(binder_references(m, b))
                      = Len(binder_references(ast, b))
                        + Cardinality({i \in 1..Len(ast.edges) :
                                          /\ ast.edges[i].src \in Subtree(ast, n)
                                          /\ ast.edges[i].dst = b
                                          /\ IsBinder(ast.edges[i].lbl)})
        Contract(m, n) ==
            /\ Ok(m)
            /\ \A k \in Nodes(ast) : node_weight(m, k) = node_weight(ast, k)
            /\ Len(m.edges) >= Len(ast.edges)
            /\ SubSeq(m.edges, 1, Len(ast.edges)) = ast.edges
            /\ m.root = ast.root
            /\ Copied(m, n, Pairs(m, n, m.ret), SubSeq(m.edges, Len(ast.edges) + 1, Len(m.edges)))
    IN Ok(ast) => \A n \in Nodes(ast) : Contract(clone_subtree(G, n, <<>>), n)

\* An evaluate that replaced a variable by a clone left a graph with a node
\* that owns a binder, a reference to that binder and a reference to a
\* binder it does not own.
C21_Witness ==
    /\ Evaluated
    /\ \E i \in Events("replace") : ast.log[i].added > 1
    /\ \E n \in Nodes(ast) :
          /\ \E e \in EdgeSet(ast) :
                IsBinder(e.lbl) /\ e.src \in Subtree(ast, n) /\ e.dst \in Subtree(ast, n)
          /\ \E e \in EdgeSet(ast) :
                IsBinder(e.lbl) /\ e.src \in Subtree(ast, n) /\ e.dst \notin Subtree(ast, n)
\* C22 (as claimed): evaluating `fact n`, defined through the fixed-point
\* combinator and a branch selected by `=num n 0`, terminates and returns
\* Number(n!) (120 for n = 5).  The branch that is not selected holds the
\* recursive call, so an evaluation that entered it for n = 0 would never
\* return within the fuel.
C22_FactTerminates ==
    LET Factorial[k \in 0..5] == IF k = 0 THEN 1 ELSE k * Factorial[k - 1]
    IN \A n \in {"0", "1", "5"} :
          (pc = "evaluated" /\ calls = 1 /\ program = Fact(n))
          => /\ Ok(ast)
             /\ node_weight(ast, result) = PrimitiveNumber(Factorial[ParseUsize(n)])
\* C23: the parsed graph is the syntax tree of the program text: `f a b` is
\* the application of the application of f to a, to b; every symbol is a
\* Bound variable with one Binder(0) edge to the innermost enclosing Lambda
\* or Closure of that name, whatever the name (a tag or a numeral included);
\* a symbol with no enclosing binder of its name is a Data node when it names
\* a tag, else a number, else a Free variable; the value of `with x v in e`
\* is parsed outside the scope of x.  No other node is made.
C23_ParseTree ==
    LET Target(n, lbl) == ast.edges[get_edge_ref(ast, n, lbl)].dst
        Labels(n) == {e.lbl : e \in {x \in EdgeSet(ast) : x.src = n}}
        Innermost(env, name) ==
            LET I == {i \in 1..Len(env) : env[i].name = name}
            IN IF I = {} THEN 0 ELSE env[CHOOSE i \in I : \A j \in I : j <= i].node
        Symbol_(name, n, binder) ==
            IF binder # 0
            THEN /\ node_weight(ast, n) = BoundVariable
                 /\ edges_out(ast, n) = <<[src |-> n, dst |-> binder, lbl |-> Binder(0)]>>
            ELSE /\ edges_out(ast, n) = <<>>
                 /\ node_weight(ast, n) =
                        (IF ConstructorTag_try_from(name) # "" THEN Data(ConstructorTag_try_from(name))
                         ELSE IF ParseUsize(name) >= 0 THEN PrimitiveNumber(ParseUsize(name))
                         ELSE FreeVariable(name))
        RECURSIVE Size(_)
        Size(t) == IF t.k \in {"var", "str"} THEN 1
                   ELSE IF t.k = "lam" THEN 1 + Size(t.a)
                   ELSE 1 + Size(t.a) + Size(t.b)
        RECURSIVE Matches(_, _, _)
        Matches(t, n, env) ==
            CASE t.k = "var" -> Symbol_(t.n, n, Innermost(env, t.n))
              [] t.k = "str" -> Kind(ast, n) = "Bytes" /\ edges_out(ast, n) = <<>>
              [] t.k = "lam" ->
                   /\ node_weight(ast, n) = Lambda(t.n)
                   /\ Len(edges_out(ast, n)) = 1 /\ Labels(n) = {Body}
                   /\ Matches(t.a, Target(n, Body), Append(env, [name |-> t.n, node |-> n]))
              [] t.k = "app" ->
                   /\ node_weight(ast, n) = Application
                   /\ Len(edges_out(ast, n)) = 2 /\ Labels(n) = {Function, Parameter}
                   /\ Matches(t.a, Target(n, Function), env)
                   /\ Matches(t.b, Target(n, Parameter), env)
              [] t.k = "with" ->
                   /\ node_weight(ast, n) = Closure(t.n)
                   /\ Len(edges_out(ast, n)) = 2 /\ Labels(n) = {Body, Parameter}
                   /\ Matches(t.a, Target(n, Parameter), env)
                   /\ Matches(t.b, Target(n, Body), Append(env, [name |-> t.n, node |-> n]))
    IN pc = "parsed" =>
          /\ Ok(ast)
          /\ Matches(program, ast.root, <<>>)
          /\ Cardinality(Nodes(ast)) = Size(program)

\* A parsed program in which a variable refers to a Closure named like a tag
\* past an inner Lambda-free scope, another to a Lambda named like a numeral,
\* a third to the outer of two Lambdas, while the same names outside those
\* scopes are a Data node and a number, under a left-nested application.
C23_Witness ==
    /\ pc = "parsed"
    /\ Ok(ast)
    /\ \E v \in Nodes(ast) : \E b \in Nodes(ast) :
          /\ Kind(ast, v) = "Bound" /\ node_weight(ast, b) = Closure("+")
          /\ [src |-> v, dst |-> b, lbl |-> Binder(0)] \in EdgeSet(ast)
    /\ \E v \in Nodes(ast) : \E b \in Nodes(ast) :
          /\ Kind(ast, v) = "Bound" /\ node_weight(ast, b) = Lambda("1")
          /\ [src |-> v, dst |-> b, lbl |-> Binder(0)] \in EdgeSet(ast)
    /\ \E v \in Nodes(ast) : \E b, inner \in Nodes(ast) :
          /\ Kind(ast, v) = "Bound" /\ Kind(ast, b) = "Lambda" /\ Kind(ast, inner) = "Lambda"
          /\ [src |-> b, dst |-> inner, lbl |-> Body] \in EdgeSet(ast)
          /\ [src |-> v, dst |-> b, lbl |-> Binder(0)] \in EdgeSet(ast)
          /\ v \in Subtree(ast, inner)
    /\ \E n \in Nodes(ast) : node_weight(ast, n) = Data("Add")
    /\ \E n \in Nodes(ast) : node_weight(ast, n) = PrimitiveNumber(1)
    /\ \E n \in Nodes(ast) : Kind(ast, n) = "Free"
    /\ \E n, f \in Nodes(ast) :
          /\ Kind(ast, n) = "Application" /\ Kind(ast, f) = "Application"
          /\ [src |-> n, dst |-> f, lbl |-> Function] \in EdgeSet(ast)
\* C24: let edge e of node n (Function of an Application, Parameter of a
\* Closure) target t and u be the node under the closure chain that starts at
\* t.  If t is a Closure c1, lift_closure_chain(n, u, e) succeeds and changes
\* exactly three kinds of edges: every non-Binder edge that targeted n targets
\* c1 (and root becomes c1 if it was n), the edge that owned u (the Body edge
\* of the last closure) targets n, and n's edge e targets u; every other edge,
\* the Binder edges and the Parameter edges of the chain among them, and
\* every node is as before.  If t is no Closure the graph is unchanged.
C24_LiftPostcondition ==
    LET Positions ==
            {p \in Nodes(ast) \X {Function, Parameter} :
                /\ Kind(ast, p[1]) = (IF p[2] = Function THEN "Application" ELSE "Closure")
                /\ get_edge_ref(ast, p[1], p[2]) # 0}
        Target(n, e) == ast.edges[get_edge_ref(ast, n, e)].dst
        Chain(c1) == {c \in Nodes(ast) : Kind(ast, c) = "Closure" /\ Under(ast, c) = Under(ast, c1)
                                         /\ c \in Subtree(ast, c1)}
        Image(x, n, e, c1, u) ==
            IF x.dst = n /\ ~IsBinder(x.lbl) THEN [x EXCEPT !.dst = c1]
            ELSE IF x.src = n /\ x.lbl = e THEN [x EXCEPT !.dst = u]
            ELSE IF x.dst = u /\ ~IsBinder(x.lbl) THEN [x EXCEPT !.dst = n]
            ELSE x
        Hoisted(m, n, e, c1, u) ==
            /\ Ok(m)
            /\ Nodes(m) = Nodes(ast)
            /\ \A k \in Nodes(ast) : node_weight(m, k) = node_weight(ast, k)
            /\ Len(m.edges) = Len(ast.edges)
            /\ \A x \in EdgeSet(m) \cup {Image(y, n, e, c1, u) : y \in EdgeSet(ast)} :
                  Cardinality({i \in 1..Len(m.edges) : m.edges[i] = x})
                      = Cardinality({i \in 1..Len(ast.edges) : Image(ast.edges[i], n, e, c1, u) = x})
            /\ m.root = (IF ast.root = n THEN c1 ELSE ast.root)
            /\ \A x \in EdgeSet(ast) : (x.dst = n /\ ~IsBinder(x.lbl)) => [x EXCEPT !.dst = c1] \in EdgeSet(m)
            /\ \E x \in EdgeSet(m) : x.lbl = Body /\ x.dst = n /\ x.src \in Chain(c1)
                                     /\ Under(ast, x.src) = u /\ [x EXCEPT !.dst = u] \in EdgeSet(ast)
            /\ [src |-> n, dst |-> u, lbl |-> e] \in EdgeSet(m)
            /\ \A x \in EdgeSet(ast) :
                  (IsBinder(x.lbl) \/ (x.lbl = Parameter /\ x.src \in Chain(c1))) => x \in EdgeSet(m)
        Post(m, n, e, t, u) ==
            IF Kind(ast, t) = "Closure" THEN Hoisted(m, n, e, t, u)
            ELSE Ok(m) /\ SameGraph(m, ast) /\ m.edges = ast.edges
        At(n, e, t) == Post(lift_closure_chain(ast, n, Under(ast, t), e), n, e, t, Under(ast, t))
    IN Ok(ast) => \A p \in Positions : At(p[1], p[2], Target(p[1], p[2]))

\* A graph with an Application whose Function edge targets a chain of two
\* closures, the first with a Parameter edge and a referrer: the lift is
\* defined there and changes the graph.
C24_Witness ==
    /\ Ok(ast)
    /\ \E n \in Eligible(ast) :
          /\ Kind(ast, follow_edge(ast, follow_edge(ast, n, Function).ret, Body).ret) = "Closure"
          /\ get_edge_ref(ast, follow_edge(ast, n, Function).ret, Parameter) # 0
          /\ binder_references(ast, follow_edge(ast, n, Function).ret) # <<>>
          /\ Ok(Lifted(ast, n))
          /\ ~SameGraph(Lifted(ast, n), ast)
\* C25: firing an Application whose function is a Lambda L with at least one
\* referrer and whose parameter P is not a bound Variable rewrites the graph
\* in place: L becomes a Closure with the same name, every edge that does not
\* leave the Application is kept (so L keeps its Body and every Binder edge
\* that targeted it, and P is left unevaluated), the Application's owner owns
\* L (the root follows), L gains a Parameter edge to P, the Application is
\* deleted, and evaluation goes on in L and then in L's Body, not in P.
C25_FireGeneral ==
    LET Target(n, e) == follow_edge(ast, n, e).ret
        Fires == {n \in Reachable(ast) :
                    /\ Kind(ast, n) = "Application"
                    /\ Kind(ast, Target(n, Function)) = "Lambda"
                    /\ binder_references(ast, Target(n, Function)) # <<>>
                    /\ Kind(ast, Target(n, Parameter)) # "Bound"}
        \* evaluate stopped after `fuel` calls
        Step(n, fuel) == evaluate([ast EXCEPT !.fuel = fuel, !.log = <<>>, !.touched = {}], n)
        Image(x, n, l) == IF x.dst = n THEN [x EXCEPT !.dst = l] ELSE x
        Fired(g, n, l, p) ==
            /\ g.status = "fuel"
            /\ Len(g.log) = 1 /\ g.log[1].ev = "fire" /\ g.log[1].n = n /\ g.log[1].c = l
            /\ Nodes(g) = Nodes(ast) \ {n}
            /\ node_weight(g, l) = Closure(node_weight(ast, l).name)
            /\ \A m \in Nodes(g) \ {l} : node_weight(g, m) = node_weight(ast, m)
            /\ EdgeSet(g) = {Image(x, n, l) : x \in {y \in EdgeSet(ast) : y.src # n}}
                               \cup {[src |-> l, dst |-> p, lbl |-> Parameter]}
            /\ Len(g.edges) = Len(ast.edges) - 1
            /\ g.root = (IF ast.root = n THEN l ELSE ast.root)
            /\ [src |-> l, dst |-> Target(l, Body), lbl |-> Body] \in EdgeSet(g)
            /\ binder_references(g, l) # <<>>
            /\ \A x \in EdgeSet(ast) : (x.dst = l /\ IsBinder(x.lbl)) => x \in EdgeSet(g)
        At(n, l, p) ==
            /\ Fired(Step(n, 2), n, l, p)
            /\ Step(n, 3).touched = {l}
            /\ Step(n, 4).touched = {l, Target(l, Body)}
    IN Ok(ast) => \A n \in Fires : At(n, Target(n, Function), Target(n, Parameter))

\* A graph where such an Application has an owner and a parameter that is an
\* Application or a Lambda: it fires and the Lambda is turned into a Closure.
C25_Witness ==
    /\ Ok(ast)
    /\ \E n \in Reachable(ast) :
          /\ Kind(ast, n) = "Application"
          /\ Kind(ast, follow_edge(ast, n, Function).ret) = "Lambda"
          /\ binder_references(ast, follow_edge(ast, n, Function).ret) # <<>>
          /\ Kind(ast, follow_edge(ast, n, Parameter).ret) \in {"Application", "Lambda"}
          /\ Owners(ast, n) # {}
          /\ evaluate([ast EXCEPT !.fuel = 2, !.log = <<>>], n).log[1].ev = "fire"
          /\ Kind(evaluate([ast EXCEPT !.fuel = 2], n), follow_edge(ast, n, Function).ret) = "Closure"
\* C26: evaluating a bound Variable v whose closure c has two or more
\* incoming Binder edges keeps c in the graph; afterwards c's Parameter edge
\* targets the evaluated value, which is not a Closure, v is gone and its
\* owner owns a copy of that value made by clone_subtree after the
\* evaluation began, and c has exactly one incoming Binder edge less.
C26_SharedDereference ==
    LET G == [ast EXCEPT !.fuel = MaxFuel, !.log = <<>>]
        Shared == {v \in Reachable(ast) :
                     /\ Kind(ast, v) = "Bound"
                     /\ Kind(ast, follow_edge(ast, v, Binder(0)).ret) = "Closure"
                     /\ Len(binder_references(ast, follow_edge(ast, v, Binder(0)).ret)) >= 2}
        Post(g, v, c, value, last) ==
            /\ contains_node(g, c) /\ Kind(g, c) = "Closure" /\ c \in g.forced
            /\ Kind(g, value) # "Closure" /\ WHNF(g, value, Len(g.nodes))
            /\ last.ev = "replace" /\ last.n = v /\ last.c = c /\ last.q = value
            /\ ~last.dangling /\ last.added >= 1 /\ last.copy /\ last.ok
            /\ last.r = g.ret /\ g.ret # value
            /\ g.born[g.ret] > ast.clock
            /\ ReadBack(g, g.ret, MaxDepth) = ReadBack(g, value, MaxDepth)
            /\ ~contains_node(g, v)
            /\ \A x \in EdgeSet(ast) :
                  (x.dst = v /\ x.src \in Nodes(g) /\ node_weight(g, x.src) = node_weight(ast, x.src))
                     => [x EXCEPT !.dst = g.ret] \in EdgeSet(g)
            /\ ast.root = v => g.root = g.ret
            /\ Len(binder_references(g, c)) = Len(binder_references(ast, c)) - 1
        At(g, v, c) == Ok(g) => Post(g, v, c, follow_edge(g, c, Parameter).ret, g.log[Len(g.log)])
    IN Ok(ast) => \A v \in Shared : At(evaluate(G, v), v, follow_edge(ast, v, Binder(0)).ret)

\* A graph with a variable whose closure has another referrer and a
\* parameter that evaluates to a closure chain: the dereference succeeds and
\* a Lambda fired on the way has become a Closure that owns c by its Body.
C26_Witness ==
    /\ Ok(ast)
    /\ \E v \in Reachable(ast) :
          /\ Kind(ast, v) = "Bound"
          /\ Kind(ast, follow_edge(ast, v, Binder(0)).ret) = "Closure"
          /\ Len(binder_references(ast, follow_edge(ast, v, Binder(0)).ret)) >= 2
          /\ Ok(evaluate(ast, v))
          /\ \E x \in EdgeSet(evaluate(ast, v)) :
                /\ x.dst = follow_edge(ast, v, Binder(0)).ret
                /\ x.lbl = Body
                /\ Kind(ast, x.src) = "Lambda"
                /\ Kind(evaluate(ast, v), x.src) = "Closure"

\* C27: firing an Application whose function is a Lambda L with k >= 1
\* referrers and whose parameter is a bound Variable p with binder B
\* replaces every Binder edge that targeted L by an edge with the same
\* source and label that targets B, deletes the Application, L and p, and
\* gives the Application's owner L's former Body (the root follows); every
\* other node and edge is kept, so no Closure is created and no referrer of
\* L is left without a binder; B has k - 1 more incoming Binder edges, and
\* evaluation goes on in the Body.
C27_IndirectionShortcut ==
    LET Target(n, e) == follow_edge(ast, n, e).ret
        Aliases == {n \in Reachable(ast) :
                      /\ Kind(ast, n) = "Application"
                      /\ Kind(ast, Target(n, Function)) = "Lambda"
                      /\ binder_references(ast, Target(n, Function)) # <<>>
                      /\ Kind(ast, Target(n, Parameter)) = "Bound"}
        \* evaluate stopped after `fuel` calls
        Step(n, fuel) == evaluate([ast EXCEPT !.fuel = fuel, !.log = <<>>, !.touched = {}], n)
        Image(x, n, l, body, b) ==
            IF x.dst = n THEN [x EXCEPT !.dst = body]
            ELSE IF x.dst = l THEN [x EXCEPT !.dst = b]
            ELSE x
        Redirected(g, n, l, p, body, b, k) ==
            /\ g.status = "fuel"
            /\ Len(g.log) = 2 /\ g.log[1].ev = "alias" /\ g.log[2].ev = "skip"
            /\ g.log[1].n = n /\ g.log[1].c = l /\ g.log[1].q = p /\ g.log[1].r = b
            /\ Nodes(g) = Nodes(ast) \ {n, l, p}
            /\ \A m \in Nodes(g) : node_weight(g, m) = node_weight(ast, m)
            /\ Len(g.edges) = Len(ast.edges) - 4
            /\ \A x \in EdgeSet(g) \cup {Image(y, n, l, body, b) : y \in {z \in EdgeSet(ast) : z.src \notin {n, l, p}}} :
                  Cardinality({i \in 1..Len(g.edges) : g.edges[i] = x})
                     = Cardinality({i \in 1..Len(ast.edges) :
                                       /\ ast.edges[i].src \notin {n, l, p}
                                       /\ Image(ast.edges[i], n, l, body, b) = x})
            /\ g.root = (IF ast.root = n THEN body ELSE ast.root)
            /\ \A x \in EdgeSet(ast) :
                  (x.dst = l /\ IsBinder(x.lbl)) => [x EXCEPT !.dst = b] \in EdgeSet(g)
            /\ \A v \in Nodes(g) : Kind(g, v) = "Bound" => get_edge_ref(g, v, Binder(0)) # 0
            /\ Len(binder_references(g, b)) = Len(binder_references(ast, b)) + k - 1
        At(n, l, p) ==
            /\ Redirected(Step(n, 3), n, l, p, Target(l, Body), Target(p, Binder(0)),
                          Len(binder_references(ast, l)))
            /\ Step(n, 4).touched = {Target(l, Body)}
    IN Ok(ast) => \A n \in Aliases : At(n, Target(n, Function), Target(n, Parameter))

\* A graph where such an Application has an owner, a Lambda with two
\* referrers and a parameter bound to a Closure with another referrer: the
\* rewrite is the "alias" one and the Closure ends with one referrer more.
C27_Witness ==
    /\ Ok(ast)
    /\ \E n \in Reachable(ast) :
          /\ Kind(ast, n) = "Application"
          /\ Owners(ast, n) # {}
          /\ Kind(ast, follow_edge(ast, n, Function).ret) = "Lambda"
          /\ Len(binder_references(ast, follow_edge(ast, n, Function).ret)) = 2
          /\ Kind(ast, follow_edge(ast, n, Parameter).ret) = "Bound"
          /\ Kind(ast, follow_edge(ast, follow_edge(ast, n, Parameter).ret, Binder(0)).ret) = "Closure"
          /\ Len(binder_references(ast, follow_edge(ast, follow_edge(ast, n, Parameter).ret, Binder(0)).ret)) = 2
          /\ evaluate([ast EXCEPT !.fuel = 3, !.log = <<>>], n).log[1].ev = "alias"
          /\ Len(binder_references(evaluate([ast EXCEPT !.fuel = 3], n),
                                   follow_edge(ast, follow_edge(ast, n, Parameter).ret, Binder(0)).ret)) = 3

\* C28: in every graph reached from a parsed program by evaluate and
\* garbage_collect steps, every Binder edge whose source is reachable from
\* the root targets a Lambda or Closure whose Body owns the source, directly
\* or through further ownership edges; no closure's Parameter subtree holds
\* a referrer of that closure, and the lift rewrite applied at any eligible
\* position keeps it so.
C28_WellScoped ==
    LET Body_(a, b) == follow_edge([a EXCEPT !.status = "ok"], b, Body)
        InScope(a, x) ==
            /\ Kind(a, x.dst) \in {"Lambda", "Closure"}
            /\ Body_(a, x.dst).status = "ok"
            /\ x.src \in Subtree(a, Body_(a, x.dst).ret)
            /\ x.src # x.dst
        Closed(a, c) ==
            get_edge_ref(a, c, Parameter) # 0
               => \A v \in Subtree(a, a.edges[get_edge_ref(a, c, Parameter)].dst) :
                     [src |-> v, dst |-> c, lbl |-> Binder(0)] \notin EdgeSet(a)
        WellScoped(a) ==
            /\ \A x \in EdgeSet(a) : (IsBinder(x.lbl) /\ x.src \in Reachable(a)) => InScope(a, x)
            /\ \A c \in Reachable(a) : Kind(a, c) = "Closure" => Closed(a, c)
    IN /\ WellScoped(ast)
       /\ Ok(ast) => \A n \in Eligible(ast) : Ok(Lifted(ast, n)) => WellScoped(Lifted(ast, n))

\* A graph left by an evaluate that fired an application and replaced a
\* variable of a shared closure by a copy of the closure's parameter, which
\* was a Lambda with a referrer of its own.
C28_Witness ==
    /\ pc = "evaluated"
    /\ Ok(ast)
    /\ Events("fire") # {}
    /\ \E i \in Events("replace") :
          /\ ~ast.log[i].dangling /\ ast.log[i].added >= 2 /\ ast.log[i].copy
          /\ Kind(before, ast.log[i].c) = "Closure"
          /\ follow_edge(before, ast.log[i].c, Parameter).ret = ast.log[i].q
          /\ Kind(before, ast.log[i].q) = "Lambda"
          /\ binder_references(before, ast.log[i].q) # <<>>

\* C29: evaluate never returns a Closure and never fails the assertion of
\* lift_closure_chain, whichever reachable node of a reachable graph it is
\* called on; the node it returns is the node under the closure chain that
\* hangs where the evaluated node hung, and it has one owner: the last
\* closure of that chain, or the owner of that place when there is no chain
\* (none when the place is the root).  The place of a node whose owner was
\* a closure stripped by the call is the place of that closure.
C29_NeverClosure ==
    LET G == [ast EXCEPT !.fuel = MaxFuel, !.log = <<>>]
        Asserted(g) ==
            g.status = "panic" /\ g.err.msg = "Node under closures can't itself be a closure"
        Survives(g, s) == contains_node(g, s) /\ g.born[s] = ast.born[s]
        RECURSIVE Place(_, _, _)
        Place(g, m, k) ==
            IF k = 0 \/ Owners(ast, m) = {} THEN [src |-> 0, lbl |-> Body]
            ELSE LET x == ast.edges[CHOOSE i \in Owners(ast, m) : TRUE]
                 IN IF Survives(g, x.src) THEN [src |-> x.src, lbl |-> x.lbl]
                    ELSE Place(g, x.src, k - 1)
        Held(g, place) ==
            IF place.src = 0 THEN g.root
            ELSE IF get_edge_ref(g, place.src, place.lbl) = 0 THEN 0
            ELSE g.edges[get_edge_ref(g, place.src, place.lbl)].dst
        Owned(g, place, top) ==
            /\ contains_node(g, g.ret)
            /\ Kind(g, g.ret) # "Closure"
            /\ Under(g, top) = g.ret
            /\ Cardinality(Owners(g, g.ret)) = (IF place.src = 0 /\ top = g.ret THEN 0 ELSE 1)
            /\ \A i \in Owners(g, g.ret) :
                  IF top = g.ret
                  THEN g.edges[i].src = place.src /\ g.edges[i].lbl = place.lbl
                  ELSE Kind(g, g.edges[i].src) = "Closure" /\ g.edges[i].lbl = Body
        At(g, place) == ~Asserted(g) /\ (Ok(g) => Owned(g, place, Held(g, place)))
    IN /\ ~Asserted(ast)
       /\ Ok(ast) => \A m \in Reachable(ast) :
             At(evaluate(G, m), Place(evaluate(G, m), m, Len(ast.nodes)))
\* A graph with an Application whose evaluation fires a Lambda and returns a
\* node owned by the Closure that Lambda has become, and with a variable
\* whose evaluation strips the closure it refers to.
C29_Witness ==
    /\ Ok(ast)
    /\ \E m \in Reachable(ast) :
          /\ Kind(ast, m) = "Application"
          /\ Ok(evaluate(ast, m))
          /\ \E x \in EdgeSet(evaluate(ast, m)) :
                /\ x.dst = evaluate(ast, m).ret
                /\ x.lbl = Body
                /\ Kind(ast, x.src) = "Lambda"
                /\ Kind(evaluate(ast, m), x.src) = "Closure"
    /\ \E v \in Reachable(ast) :
          /\ Kind(ast, v) = "Bound"
          /\ Kind(ast, follow_edge(ast, v, Binder(0)).ret) = "Closure"
          /\ Ok(evaluate(ast, v))
          /\ ~contains_node(evaluate(ast, v), follow_edge(ast, v, Binder(0)).ret)

\* C30 (amended): in a pass of garbage_collect over a graph the parser built
\* and no evaluate has rewritten, every closure of the batch of unreferenced
\* closures is still a Closure with its Body and Parameter when its turn
\* comes, each strip succeeds, and garbage_collect returns without failure
\* and leaves no unreferenced closure.
C30_PrepassNeverFails ==
    LET G == [ast EXCEPT !.fuel = MaxFuel, !.log = <<>>]
        Unused(a) == {n \in Nodes(a) : Kind(a, n) = "Closure" /\ binder_references(a, n) = <<>>}
        \* node_indices() yields the closures in increasing index order
        Ordered(unused) ==
            [i \in 1..Cardinality(unused) |->
                CHOOSE n \in unused : Cardinality({m \in unused : m < n}) = i - 1]
        RECURSIVE Alive(_, _)
        Alive(a, closures) ==
            \/ closures = <<>>
            \/ /\ Kind(a, Head(closures)) = "Closure"
               /\ get_edge_ref(a, Head(closures), Body) # 0
               /\ get_edge_ref(a, Head(closures), Parameter) # 0
               /\ Ok(StripAll(a, <<Head(closures)>>))
               /\ Alive(StripAll(a, <<Head(closures)>>), Tail(closures))
        Pass(g) ==
            /\ Ok(g)
            /\ Unused(g) = {}
            /\ Unused(ast) # {} => g.log[1].ev = "pass" /\ g.log[1].visited = Unused(ast)
    IN /\ (Ok(ast) /\ result = 0) => (Alive(G, Ordered(Unused(ast))) /\ Pass(garbage_collect(G)))
       /\ (pc = "collected" /\ result = 0) => Ok(ast)

\* C30 (as claimed): the same for a pass over any graph, those evaluate has
\* left included.
C30_PassNeverFails ==
    LET G == [ast EXCEPT !.fuel = MaxFuel, !.log = <<>>]
    IN /\ Ok(ast) => Ok(garbage_collect(G))
       /\ pc = "collected" => Ok(ast)

\* A parsed graph with two unreferenced closures, one inside the Parameter
\* subtree of the other: the pass strips both, the inner one first.
C30_Witness ==
    /\ pc = "parsed"
    /\ \E c, d \in Nodes(ast) :
          /\ c < d
          /\ Kind(ast, c) = "Closure" /\ binder_references(ast, c) = <<>>
          /\ Kind(ast, d) = "Closure" /\ binder_references(ast, d) = <<>>
          /\ c \in Subtree(ast, follow_edge(ast, d, Parameter).ret)
          /\ Ok(garbage_collect(ast))
          /\ garbage_collect(ast).log[1].visited = {c, d}
          /\ ~contains_node(garbage_collect(ast), c)
          /\ ~contains_node(garbage_collect(ast), d)
====
